---- MODULE Spec2Model ----
(***************************************************************************)
(* A model of the GX Verse AI studio (a React client): the focus viewer's  *)
(* zoom/pan math, the Magic Expand geometry, the masking export, the edit  *)
(* history stack, the IndexedDB history store, the API error parser, the   *)
(* edit request/response handling and the object-URL lifecycle.            *)
(*                                                                         *)
(* Two revisions of the studio component are in the repository:            *)
(* src/components/StudioPage.tsx and src/unnamed/part_000.  Where they     *)
(* differ, the definitions say which revision they model.                  *)
(*                                                                         *)
(* Lengths are exact rationals [n |-> numerator, d |-> denominator]: the   *)
(* code's floating-point arithmetic is modelled without rounding error.    *)
(***************************************************************************)
EXTENDS Integers, Sequences, FiniteSets, TLC

(***************************************************************************)
(* Exact rational arithmetic (JavaScript numbers, Math.max/min/round).     *)
(***************************************************************************)
Abs(x) == IF x < 0 THEN -x ELSE x

RECURSIVE GCD(_, _)
GCD(a, b) == IF b = 0 THEN a ELSE GCD(b, a % b)

\* The rational n/d in lowest terms with a positive denominator (d # 0).
Rat(n, d) ==
    LET s == IF d < 0 THEN -1 ELSE 1
        g == GCD(Abs(n), Abs(d))
    IN  [n |-> (s * n) \div g, d |-> (s * d) \div g]

RInt(k) == [n |-> k, d |-> 1]
RAdd(a, b) == Rat(a.n * b.d + b.n * a.d, a.d * b.d)
RSub(a, b) == Rat(a.n * b.d - b.n * a.d, a.d * b.d)
RMul(a, b) == Rat(a.n * b.n, a.d * b.d)
RDiv(a, b) == Rat(a.n * b.d, a.d * b.n)
RNeg(a) == [n |-> -a.n, d |-> a.d]
RLe(a, b) == a.n * b.d <= b.n * a.d
RLt(a, b) == a.n * b.d < b.n * a.d
RMax(a, b) == IF RLe(a, b) THEN b ELSE a
RMin(a, b) == IF RLe(a, b) THEN a ELSE b
\* Math.round: the nearest integer, halves rounded up (floor(x + 1/2)).
RRound(a) == (2 * a.n + a.d) \div (2 * a.d)
\* Assigning a number to canvas.width (an unsigned long) truncates it.
RTrunc(a) == IF a.n >= 0 THEN a.n \div a.d ELSE -((-a.n) \div a.d)

Zero == RInt(0)
\* JavaScript null for object-valued state (a record, so that it compares with
\* records).
NULL == [null |-> TRUE]

VARIABLES
    \* FocusView (the zoom/pan focus viewer)
    zoom, pan, panState, imageDimensions, containerRect, zoomSteps,
    \* Magic Expand, free-form editor (src/unnamed/part_000)
    expandState, dragState, dragListener, expandTargetRatio,
    magicExpandContainer, image1Natural, expandRequest, expandSteps,
    \* Magic Expand by target ratio (src/components/StudioPage.tsx)
    expandTargetRatioSp, image1Sp, expandRequestSp,
    \* the mask canvas and Apply Edit in masking mode
    maskCanvas, activeMaskTool, isDrawingMask, pathPoint, lassoPoints,
    maskRequest, maskStrokes,
    \* the edit history stack (undo/redo of effects)
    editHistory, currentHistoryIndex, effects, generatedImage, lastEdit,
    \* the generation history: in memory (App state) and in IndexedDB
    history, currentUser, store, txQueue, now, lastSave, adds, generatingFor,
    \* parseApiError: the error caught and the toast shown for it
    caughtError, toastError,
    \* editImageWithGemini: the call, its request, the response, the outcome
    geminiCall, geminiRequest, geminiResponse, editResult,
    \* object URLs held by the studio, from mount to unmount
    studioPhase, studioRevision, objectUrls, urlCount, referenceImageFiles,
    previews, videoBlobUrl, unmountClosure, beforeImage,
    savedBeforeImageUrls,
    \* the reference-image list and its limit of 5
    referenceList, renderedReferences, readingReferences, referenceToast,
    referenceAdds, lastReferenceAdd, lastGenerate,
    \* user settings in localStorage
    settingsStorage, settingsUser, activeCreateFunc, aspectRatio, lastChosen,
    settingsMounts,
    \* the loading flags and the requests in flight
    isLoading, isUpscaling, isGeneratingVariations, progress, requests,
    upscales, variationRuns, finishTimers, hasImage,
    progressIntervalRef, intervals, capped, intervalCount,
    \* an uploader slot: image data, preview, reads in progress
    slotImage, slotPreview, slotReading, slotUploading, selections,
    \* the inputs of Apply Edit, its validation and its API call
    image1Ed, image2Ed, activeEditFuncEd, promptEd, isLoadingEd, toastErrorEd,
    editApiCall, lastApply,
    \* generateVideoWithGemini: the polling loop
    videoPhase, dateNow, startTime, operation, videoProgress, videoResult,
    lastLoopCheck

focusVars == <<zoom, pan, panState, imageDimensions, containerRect, zoomSteps>>
expandVars == <<expandState, dragState, dragListener, expandTargetRatio,
                magicExpandContainer, image1Natural, expandRequest, expandSteps>>

ratioVars == <<expandTargetRatioSp, image1Sp, expandRequestSp>>

maskVars == <<maskCanvas, activeMaskTool, isDrawingMask, pathPoint, lassoPoints,
              maskRequest, maskStrokes>>

editVars == <<editHistory, currentHistoryIndex, effects, generatedImage,
              lastEdit>>

storeVars == <<history, currentUser, store, txQueue, now, lastSave, adds,
               generatingFor>>

errorVars == <<caughtError, toastError>>

geminiVars == <<geminiCall, geminiRequest, geminiResponse, editResult>>

urlVars == <<studioPhase, studioRevision, objectUrls, urlCount,
             referenceImageFiles, previews, videoBlobUrl, unmountClosure,
             beforeImage, savedBeforeImageUrls>>

referenceVars == <<referenceList, renderedReferences, readingReferences,
                   referenceToast, referenceAdds, lastReferenceAdd,
                 lastGenerate>>

settingsVars == <<settingsStorage, settingsUser, activeCreateFunc, aspectRatio,
                  lastChosen, settingsMounts>>

loadingVars == <<isLoading, isUpscaling, isGeneratingVariations, progress,
                 requests, upscales, variationRuns, finishTimers, hasImage,
                 progressIntervalRef, intervals, capped, intervalCount>>

slotVars == <<slotImage, slotPreview, slotReading, slotUploading, selections>>

applyVars == <<image1Ed, image2Ed, activeEditFuncEd, promptEd, isLoadingEd,
               toastErrorEd, editApiCall, lastApply>>

videoVars == <<videoPhase, dateNow, startTime, operation, videoProgress,
               videoResult, lastLoopCheck>>

vars == <<focusVars, expandVars, ratioVars, maskVars, editVars, storeVars, errorVars, geminiVars, urlVars, referenceVars, settingsVars, loadingVars, slotVars, applyVars, videoVars>>

notFocus == <<expandVars, ratioVars, maskVars, editVars, storeVars, errorVars, geminiVars, urlVars, referenceVars, settingsVars, loadingVars, slotVars, applyVars, videoVars>>
notExpand == <<focusVars, ratioVars, maskVars, editVars, storeVars, errorVars, geminiVars, urlVars, referenceVars, settingsVars, loadingVars, slotVars, applyVars, videoVars>>
notRatio == <<focusVars, expandVars, maskVars, editVars, storeVars, errorVars, geminiVars, urlVars, referenceVars, settingsVars, loadingVars, slotVars, applyVars, videoVars>>
notMask == <<focusVars, expandVars, ratioVars, editVars, storeVars, errorVars, geminiVars, urlVars, referenceVars, settingsVars, loadingVars, slotVars, applyVars, videoVars>>
notEdit == <<focusVars, expandVars, ratioVars, maskVars, storeVars, errorVars, geminiVars, urlVars, referenceVars, settingsVars, loadingVars, slotVars, applyVars, videoVars>>
notStore == <<focusVars, expandVars, ratioVars, maskVars, editVars, errorVars, geminiVars, urlVars, referenceVars, settingsVars, loadingVars, slotVars, applyVars, videoVars>>
notError == <<focusVars, expandVars, ratioVars, maskVars, editVars, storeVars, geminiVars, urlVars, referenceVars, settingsVars, loadingVars, slotVars, applyVars, videoVars>>
notGemini == <<focusVars, expandVars, ratioVars, maskVars, editVars, storeVars, errorVars, urlVars, referenceVars, settingsVars, loadingVars, slotVars, applyVars, videoVars>>
notUrl == <<focusVars, expandVars, ratioVars, maskVars, editVars, storeVars, errorVars, geminiVars, referenceVars, settingsVars, loadingVars, slotVars, applyVars, videoVars>>
notReference == <<focusVars, expandVars, ratioVars, maskVars, editVars, storeVars, errorVars, geminiVars, urlVars, settingsVars, loadingVars, slotVars, applyVars, videoVars>>
notSettings == <<focusVars, expandVars, ratioVars, maskVars, editVars, storeVars, errorVars, geminiVars, urlVars, referenceVars, loadingVars, slotVars, applyVars, videoVars>>
notLoading == <<focusVars, expandVars, ratioVars, maskVars, editVars, storeVars, errorVars, geminiVars, urlVars, referenceVars, settingsVars, slotVars, applyVars, videoVars>>
notSlot == <<focusVars, expandVars, ratioVars, maskVars, editVars, storeVars, errorVars, geminiVars, urlVars, referenceVars, settingsVars, loadingVars, applyVars, videoVars>>
notApply == <<focusVars, expandVars, ratioVars, maskVars, editVars, storeVars, errorVars, geminiVars, urlVars, referenceVars, settingsVars, loadingVars, slotVars, videoVars>>
notVideo == <<focusVars, expandVars, ratioVars, maskVars, editVars, storeVars, errorVars, geminiVars, urlVars, referenceVars, settingsVars, loadingVars, slotVars, applyVars>>

(***************************************************************************)
(* FocusView: zoom and pan of the focused image.                           *)
(* containerRect is imageContainerRef's bounding rectangle, with its       *)
(* left/top at the origin, so clientX/clientY are container coordinates.   *)
(***************************************************************************)
\* How many zoom steps (wheel, zoom buttons, double-click zoom to 2x) a
\* behaviour takes; zoomSteps counts them.
MaxZoomSteps == 2

ContainerRects == {[width |-> 4, height |-> 2]}
ImageSizes == {[width |-> 4, height |-> 2], [width |-> 2, height |-> 2],
               [width |-> 8, height |-> 2]}
\* Mouse positions of wheel, double-click and mouse-move events (the
\* container's corners), and of the mouse-down that starts a drag (its centre).
MouseXs == {0, 4}
MouseYs == {0, 2}
DragStartXs == {2}
DragStartYs == {1}

zoomFactor == Rat(11, 10)
buttonZoomFactor == Rat(6, 5)
minZoom == Rat(1, 5)
maxZoom == RInt(10)

\* Math.max(lo, Math.min(hi, v))
Clamp(lo, hi, v) == RMax(lo, RMin(hi, v))

getPanBounds(rect, imgDimensions, currentZoom) ==
    IF rect = NULL \/ imgDimensions = NULL \/ imgDimensions.width = 0
    THEN [minX |-> Zero, maxX |-> Zero, minY |-> Zero, maxY |-> Zero]
    ELSE
      LET imageAspectRatio == Rat(imgDimensions.width, imgDimensions.height)
          containerAspectRatio == Rat(rect.width, rect.height)
          wider == RLt(containerAspectRatio, imageAspectRatio)
          renderedImageWidth ==
              IF wider THEN RInt(rect.width)
              ELSE RMul(RInt(rect.height), imageAspectRatio)
          renderedImageHeight ==
              IF wider THEN RDiv(RInt(rect.width), imageAspectRatio)
              ELSE RInt(rect.height)
          overhangX == RMax(Zero, RDiv(RSub(RMul(renderedImageWidth, currentZoom),
                                            RInt(rect.width)), RInt(2)))
          overhangY == RMax(Zero, RDiv(RSub(RMul(renderedImageHeight, currentZoom),
                                            RInt(rect.height)), RInt(2)))
      IN  [minX |-> RNeg(overhangX), maxX |-> overhangX,
           minY |-> RNeg(overhangY), maxY |-> overhangY]

\* The zoom about the mouse position shared by handleWheel and
\* handleDoubleClick: the new pan keeps the point under the mouse fixed and
\* is clamped to the bounds of the new zoom.
ZoomAbout(mouseX, mouseY, oldZoom, clampedZoom) ==
    LET k == RDiv(clampedZoom, oldZoom)
        newPanX == RSub(RInt(mouseX), RMul(RSub(RInt(mouseX), pan.x), k))
        newPanY == RSub(RInt(mouseY), RMul(RSub(RInt(mouseY), pan.y), k))
        bounds == getPanBounds(containerRect, imageDimensions, clampedZoom)
    IN  [x |-> Clamp(bounds.minX, bounds.maxX, newPanX),
         y |-> Clamp(bounds.minY, bounds.maxY, newPanY)]

FocusInit ==
    /\ zoom = RInt(1)
    /\ pan = [x |-> Zero, y |-> Zero]
    /\ panState = [isPanning |-> FALSE, startX |-> 0, startY |-> 0,
                   startPanX |-> Zero, startPanY |-> Zero]
    /\ imageDimensions = NULL
    /\ containerRect \in ContainerRects
    /\ zoomSteps = 0

\* The effect on [isOpen, imageUrl]: the view is reset when the viewer opens
\* or shows another image.
ResetViewOnOpen ==
    /\ zoom' = RInt(1)
    /\ pan' = [x |-> Zero, y |-> Zero]
    /\ imageDimensions' = NULL
    /\ UNCHANGED <<panState, containerRect, zoomSteps, notFocus>>

handleImageLoad ==
    /\ imageDimensions = NULL
    /\ \E dims \in ImageSizes : imageDimensions' = dims
    /\ UNCHANGED <<zoom, pan, panState, containerRect, zoomSteps, notFocus>>

handleWheel ==
    /\ imageDimensions # NULL
    /\ zoomSteps < MaxZoomSteps
    /\ \E mouseX \in MouseXs, mouseY \in MouseYs, deltaYNegative \in BOOLEAN :
         LET oldZoom == zoom
             newZoom == IF deltaYNegative THEN RMul(oldZoom, zoomFactor)
                        ELSE RDiv(oldZoom, zoomFactor)
             clampedZoom == Clamp(minZoom, maxZoom, newZoom)
         IN  /\ zoom' = clampedZoom
             /\ pan' = ZoomAbout(mouseX, mouseY, oldZoom, clampedZoom)
    /\ zoomSteps' = zoomSteps + 1
    /\ UNCHANGED <<panState, imageDimensions, containerRect, notFocus>>

handleMouseDown ==
    /\ imageDimensions # NULL
    /\ \E clientX \in DragStartXs, clientY \in DragStartYs :
         panState' = [isPanning |-> TRUE, startX |-> clientX, startY |-> clientY,
                      startPanX |-> pan.x, startPanY |-> pan.y]
    /\ UNCHANGED <<zoom, pan, imageDimensions, containerRect, zoomSteps, notFocus>>

handleMouseMove ==
    /\ panState.isPanning
    /\ imageDimensions # NULL
    /\ \E clientX \in MouseXs, clientY \in MouseYs :
         LET dx == clientX - panState.startX
             dy == clientY - panState.startY
             newPanX == RAdd(panState.startPanX, RInt(dx))
             newPanY == RAdd(panState.startPanY, RInt(dy))
             bounds == getPanBounds(containerRect, imageDimensions, zoom)
         IN  pan' = [x |-> Clamp(bounds.minX, bounds.maxX, newPanX),
                     y |-> Clamp(bounds.minY, bounds.maxY, newPanY)]
    /\ UNCHANGED <<zoom, panState, imageDimensions, containerRect, zoomSteps, notFocus>>

handleMouseUp ==
    /\ panState.isPanning
    /\ panState' = [panState EXCEPT !.isPanning = FALSE]
    /\ UNCHANGED <<zoom, pan, imageDimensions, containerRect, zoomSteps, notFocus>>

handleResetZoom ==
    /\ zoom' = RInt(1)
    /\ pan' = [x |-> Zero, y |-> Zero]
    /\ UNCHANGED <<panState, imageDimensions, containerRect, zoomSteps, notFocus>>

handleDoubleClick ==
    /\ imageDimensions # NULL
    /\ LET targetZoom == IF RLt(zoomFactor, zoom) THEN RInt(1) ELSE RInt(2)
       IN  IF targetZoom = RInt(1)
           THEN /\ zoom' = RInt(1)
                /\ pan' = [x |-> Zero, y |-> Zero]
                /\ UNCHANGED zoomSteps
           ELSE /\ zoomSteps < MaxZoomSteps
                /\ zoomSteps' = zoomSteps + 1
                /\ \E mouseX \in MouseXs, mouseY \in MouseYs :
                     LET clampedZoom == Clamp(minZoom, maxZoom, targetZoom)
                     IN  /\ zoom' = clampedZoom
                         /\ pan' = ZoomAbout(mouseX, mouseY, zoom, clampedZoom)
    /\ UNCHANGED <<panState, imageDimensions, containerRect, notFocus>>

\* The "Ampliar" button: setZoom(z => Math.min(10, z * 1.2)); pan is not set.
ZoomInButton ==
    /\ zoomSteps < MaxZoomSteps
    /\ zoom' = RMin(maxZoom, RMul(zoom, buttonZoomFactor))
    /\ zoomSteps' = zoomSteps + 1
    /\ UNCHANGED <<pan, panState, imageDimensions, containerRect, notFocus>>

\* The "Reduzir" button: setZoom(z => Math.max(0.2, z / 1.2)); pan is not set.
ZoomOutButton ==
    /\ zoomSteps < MaxZoomSteps
    /\ zoom' = RMax(minZoom, RDiv(zoom, buttonZoomFactor))
    /\ zoomSteps' = zoomSteps + 1
    /\ UNCHANGED <<pan, panState, imageDimensions, containerRect, notFocus>>

(***************************************************************************)
(* Magic Expand, the free-form editor of src/unnamed/part_000.             *)
(* expandState holds the container size and the frame and image            *)
(* rectangles (container coordinates).  dragListener is the window         *)
(* mousemove listener registered by a mouse-down: the closure keeps the    *)
(* handle and the expandState of the render in which the drag started.     *)
(***************************************************************************)
\* How many mousemove events of frame and image drags a behaviour takes;
\* expandSteps counts them.
MaxExpandSteps == 2

ExpandContainers == {[width |-> 4, height |-> 3]}
\* naturalWidth x naturalHeight of the uploaded image.
NaturalSizes == {[width |-> 4, height |-> 6]}
\* clientX - startX and clientY - startY of a mousemove during a drag.
DragDeltas == {-2, 2}
Handles == {"n", "s", "w", "e", "nw", "ne", "sw", "se"}
\* aspectRatios: id |-> <<w, h>> (ratioStr.split(':').map(Number))
aspectRatios == [r \in {"1:1", "16:9", "9:16", "4:3", "3:4"} |->
                   CASE r = "1:1" -> <<1, 1>>
                     [] r = "16:9" -> <<16, 9>>
                     [] r = "9:16" -> <<9, 16>>
                     [] r = "4:3" -> <<4, 3>>
                     [] r = "3:4" -> <<3, 4>>]

\* handle.includes(c)
HandleIncludes(handle, c) ==
    c \in (CASE handle = "n" -> {"n"} [] handle = "s" -> {"s"}
             [] handle = "w" -> {"w"} [] handle = "e" -> {"e"}
             [] handle = "nw" -> {"n", "w"} [] handle = "ne" -> {"n", "e"}
             [] handle = "sw" -> {"s", "w"} [] handle = "se" -> {"s", "e"})

NoDrag == [type |-> "null", handle |-> "", startX |-> 0, startY |-> 0,
           startFrame |-> NULL, startImage |-> NULL]

ExpandInit ==
    /\ expandState = NULL
    /\ dragState = NoDrag
    /\ dragListener = NULL
    /\ expandTargetRatio = "free"
    /\ magicExpandContainer = NULL
    /\ image1Natural = NULL
    /\ expandRequest = NULL
    /\ expandSteps = 0

\* updateExpandState (the layout effect on [isMagicExpandModeActive, image1,
\* image1Preview] and the window resize listener): the image is fitted into
\* the container and centred; the frame starts equal to the image.
updateExpandState ==
    /\ expandRequest = NULL
    /\ dragListener = NULL
    /\ \E container \in ExpandContainers, natural \in NaturalSizes :
         LET naturalWidth == natural.width
             naturalHeight == natural.height
             containerAspectRatio == Rat(container.width, container.height)
             imageAspectRatio == Rat(naturalWidth, naturalHeight)
             wider == RLt(containerAspectRatio, imageAspectRatio)
             imageWidth == IF wider THEN RInt(container.width)
                           ELSE RMul(RInt(container.height), imageAspectRatio)
             imageHeight == IF wider THEN RDiv(RInt(container.width), imageAspectRatio)
                            ELSE RInt(container.height)
             rect == [width |-> imageWidth, height |-> imageHeight,
                      top |-> RDiv(RSub(RInt(container.height), imageHeight), RInt(2)),
                      left |-> RDiv(RSub(RInt(container.width), imageWidth), RInt(2))]
         IN  /\ naturalWidth # 0
             /\ magicExpandContainer' = container
             /\ image1Natural' = natural
             /\ expandState' = [container |-> [width |-> RInt(container.width),
                                               height |-> RInt(container.height)],
                                frame |-> rect, image |-> rect]
    /\ UNCHANGED <<dragState, dragListener, expandTargetRatio, expandRequest, expandSteps, notExpand>>

\* handleExpandInteraction: mouse-down on a resize handle of the frame.
handleExpandInteraction ==
    /\ expandRequest = NULL
    /\ expandState # NULL
    /\ dragListener = NULL
    /\ \E handle \in Handles :
         /\ dragState' = [type |-> "resize", handle |-> handle, startX |-> 0, startY |-> 0,
                          startFrame |-> expandState.frame,
                          startImage |-> expandState.image]
         /\ dragListener' = [kind |-> "resize", handle |-> handle,
                             expandState |-> expandState]
    /\ expandTargetRatio' = "free"
    /\ UNCHANGED <<expandState, magicExpandContainer, image1Natural, expandRequest, expandSteps, notExpand>>

\* The frame a resize mousemove computes from the drag's start frame.
ResizedFrame(handle, startFrame, captured, dx, dy) ==
    LET w1 == IF HandleIncludes(handle, "e") THEN RAdd(startFrame.width, RInt(dx))
              ELSE startFrame.width
        h1 == IF HandleIncludes(handle, "s") THEN RAdd(startFrame.height, RInt(dy))
              ELSE startFrame.height
        w2 == IF HandleIncludes(handle, "w") THEN RSub(w1, RInt(dx)) ELSE w1
        l2 == IF HandleIncludes(handle, "w") THEN RAdd(startFrame.left, RInt(dx))
              ELSE startFrame.left
        h2 == IF HandleIncludes(handle, "n") THEN RSub(h1, RInt(dy)) ELSE h1
        t2 == IF HandleIncludes(handle, "n") THEN RAdd(startFrame.top, RInt(dy))
              ELSE startFrame.top
        \* Min size is image size
        w3 == RMax(w2, captured.image.width)
        h3 == RMax(h2, captured.image.height)
        \* Cannot go beyond container
        w4 == IF RLt(l2, Zero) THEN RAdd(w3, l2) ELSE w3
        l4 == IF RLt(l2, Zero) THEN Zero ELSE l2
        h4 == IF RLt(t2, Zero) THEN RAdd(h3, t2) ELSE h3
        t4 == IF RLt(t2, Zero) THEN Zero ELSE t2
        w5 == IF RLt(captured.container.width, RAdd(l4, w4))
              THEN RSub(captured.container.width, l4) ELSE w4
        h5 == IF RLt(captured.container.height, RAdd(t4, h4))
              THEN RSub(captured.container.height, t4) ELSE h4
    IN  [width |-> w5, height |-> h5, top |-> t4, left |-> l4]

\* The window mousemove listener of handleExpandInteraction.
ResizeMouseMove ==
    /\ dragListener # NULL
    /\ dragListener.kind = "resize"
    /\ dragState.type = "resize"
    /\ expandState # NULL
    /\ expandSteps < MaxExpandSteps
    /\ expandSteps' = expandSteps + 1
    /\ \E dx \in DragDeltas, dy \in DragDeltas :
         expandState' = [expandState EXCEPT !.frame =
             ResizedFrame(dragListener.handle, dragState.startFrame,
                          dragListener.expandState, dx, dy)]
    /\ UNCHANGED <<dragState, dragListener, expandTargetRatio, magicExpandContainer,
                   image1Natural, expandRequest, notExpand>>

\* handleImageDragStart: mouse-down on the image.
handleImageDragStart ==
    /\ expandRequest = NULL
    /\ expandState # NULL
    /\ dragListener = NULL
    /\ dragState' = [type |-> "move", handle |-> "", startX |-> 0, startY |-> 0,
                     startFrame |-> NULL, startImage |-> expandState.image]
    /\ dragListener' = [kind |-> "move", handle |-> "", expandState |-> expandState]
    /\ UNCHANGED <<expandState, expandTargetRatio, magicExpandContainer, image1Natural,
                   expandRequest, expandSteps, notExpand>>

\* The image position a move mousemove computes from the drag's start image.
MovedImage(startImage, captured, dx, dy) ==
    LET top1 == RMax(RAdd(startImage.top, RInt(dy)), captured.frame.top)
        left1 == RMax(RAdd(startImage.left, RInt(dx)), captured.frame.left)
        bottom == RAdd(captured.frame.top, captured.frame.height)
        right == RAdd(captured.frame.left, captured.frame.width)
        top2 == IF RLt(bottom, RAdd(top1, captured.image.height))
                THEN RSub(bottom, captured.image.height) ELSE top1
        left2 == IF RLt(right, RAdd(left1, captured.image.width))
                 THEN RSub(right, captured.image.width) ELSE left1
    IN  [top |-> top2, left |-> left2]

\* The window mousemove listener of handleImageDragStart.
ImageMouseMove ==
    /\ dragListener # NULL
    /\ dragListener.kind = "move"
    /\ dragState.type = "move"
    /\ expandState # NULL
    /\ expandSteps < MaxExpandSteps
    /\ expandSteps' = expandSteps + 1
    /\ \E dx \in DragDeltas, dy \in DragDeltas :
         LET p == MovedImage(dragState.startImage, dragListener.expandState, dx, dy)
         IN  expandState' = [expandState EXCEPT !.image.top = p.top,
                                                !.image.left = p.left]
    /\ UNCHANGED <<dragState, dragListener, expandTargetRatio, magicExpandContainer,
                   image1Natural, expandRequest, notExpand>>

\* The window mouseup listener of either drag.
ExpandMouseUp ==
    /\ dragListener # NULL
    /\ dragState' = [dragState EXCEPT !.type = "null"]
    /\ dragListener' = NULL
    /\ UNCHANGED <<expandState, expandTargetRatio, magicExpandContainer, image1Natural,
                   expandRequest, expandSteps, notExpand>>

\* The frame and image position handleExpandRatioPreset computes.
PresetLayout(es, ratio) ==
    LET imageAspectRatio == RDiv(es.image.width, es.image.height)
        wider == RLt(imageAspectRatio, ratio)
        \* New frame is wider
        widerWidth == RMin(es.container.width, RMul(es.image.height, ratio))
        \* New frame is taller
        tallerHeight == RMin(es.container.height, RDiv(es.image.width, ratio))
        frameWidth == IF wider THEN widerWidth ELSE RMul(tallerHeight, ratio)
        frameHeight == IF wider THEN RDiv(widerWidth, ratio) ELSE tallerHeight
        half(a) == RDiv(a, RInt(2))
    IN  [frame |-> [width |-> frameWidth, height |-> frameHeight,
                    top |-> half(RSub(es.container.height, frameHeight)),
                    left |-> half(RSub(es.container.width, frameWidth))],
         imageTop |-> half(RSub(es.container.height, es.image.height)),
         imageLeft |-> half(RSub(es.container.width, es.image.width))]

handleExpandRatioPreset ==
    /\ expandRequest = NULL
    /\ dragListener = NULL
    /\ \E ratioStr \in DOMAIN aspectRatios :
         /\ expandTargetRatio' = ratioStr
         /\ IF expandState = NULL
            THEN UNCHANGED expandState
            ELSE LET wh == aspectRatios[ratioStr]
                     lay == PresetLayout(expandState, Rat(wh[1], wh[2]))
                 IN  expandState' = [expandState EXCEPT !.frame = lay.frame,
                                                        !.image.top = lay.imageTop,
                                                        !.image.left = lay.imageLeft]
    /\ UNCHANGED <<dragState, dragListener, magicExpandContainer, image1Natural,
                   expandRequest, expandSteps, notExpand>>

\* The "Livre" button: setExpandTargetRatio('free').
SelectFreeRatio ==
    /\ expandRequest = NULL
    /\ dragListener = NULL
    /\ expandTargetRatio # "free"
    /\ expandTargetRatio' = "free"
    /\ UNCHANGED <<expandState, dragState, dragListener, magicExpandContainer,
                   image1Natural, expandRequest, expandSteps, notExpand>>

\* The rectangle a is inside the rectangle b.
RectInside(a, b) ==
    /\ RLe(b.left, a.left)
    /\ RLe(b.top, a.top)
    /\ RLe(RAdd(a.left, a.width), RAdd(b.left, b.width))
    /\ RLe(RAdd(a.top, a.height), RAdd(b.top, b.height))

\* The image and the mask the Magic Expand branch of handleApplyEdit draws:
\* both canvases have the rounded frame size, the image is drawn at the
\* rounded offset of the image in the frame with its natural size, and the
\* mask is filled white and then black over that same rectangle.
ExpandCanvases(es, natural) ==
    LET scale == RDiv(RInt(natural.width), es.image.width)
        finalCanvasWidth == RRound(RMul(es.frame.width, scale))
        finalCanvasHeight == RRound(RMul(es.frame.height, scale))
        finalImageX == RRound(RMul(RSub(es.image.left, es.frame.left), scale))
        finalImageY == RRound(RMul(RSub(es.image.top, es.frame.top), scale))
        drawn == [left |-> RInt(finalImageX), top |-> RInt(finalImageY),
                  width |-> RInt(natural.width), height |-> RInt(natural.height)]
    IN  [image |-> [width |-> finalCanvasWidth, height |-> finalCanvasHeight,
                    drawn |-> drawn],
         mask |-> [width |-> finalCanvasWidth, height |-> finalCanvasHeight,
                   fill |-> "white", black |-> drawn]]

\* handleApplyEdit, Magic Expand branch: the click on the apply button (no
\* drag is in progress) builds the request from the expandState of the render.
\* The request stays in flight until ApplyEditExpandDone; the model takes no
\* editor event in between (none of them changes the request already built).
ApplyEditExpand ==
    /\ expandState # NULL
    /\ dragListener = NULL
    /\ expandRequest = NULL
    /\ expandRequest' = ExpandCanvases(expandState, image1Natural)
    /\ UNCHANGED <<expandState, dragState, dragListener, expandTargetRatio,
                   magicExpandContainer, image1Natural, expandSteps, notExpand>>

\* The end of handleApplyEdit (the result or the error, then the finally
\* block): the request is no longer in flight.
ApplyEditExpandDone ==
    /\ expandRequest # NULL
    /\ expandRequest' = NULL
    /\ UNCHANGED <<expandState, dragState, dragListener, expandTargetRatio,
                   magicExpandContainer, image1Natural, expandSteps, notExpand>>

(***************************************************************************)
(* Magic Expand by target ratio, the revision of                           *)
(* src/components/StudioPage.tsx: the canvas is the smallest one of the    *)
(* target ratio that holds the image, and the image is centred in it.      *)
(***************************************************************************)
\* naturalWidth x naturalHeight of the uploaded image.
UploadWidths == {2, 3, 4, 16}
UploadHeights == {2, 3, 4, 9}

RatioInit ==
    /\ expandTargetRatioSp = "16:9"
    /\ image1Sp = NULL
    /\ expandRequestSp = NULL

\* handleImageUpload for image1: the uploaded image's natural size.
UploadImage1 ==
    /\ expandRequestSp = NULL
    /\ \E w \in UploadWidths, h \in UploadHeights :
         image1Sp' = [width |-> w, height |-> h]
    /\ UNCHANGED <<expandTargetRatioSp, expandRequestSp, notRatio>>

\* The ratio buttons: setExpandTargetRatio(ratio.id).
SelectExpandRatio ==
    /\ expandRequestSp = NULL
    /\ \E ratioStr \in DOMAIN aspectRatios : expandTargetRatioSp' = ratioStr
    /\ UNCHANGED <<image1Sp, expandRequestSp, notRatio>>

\* The image and the mask the Magic Expand branch draws.  newWidth, newHeight,
\* imgX and imgY are fractions; the canvas sizes are what assigning them to
\* canvas.width and canvas.height leaves.
RatioCanvases(original, ratioStr) ==
    LET wh == aspectRatios[ratioStr]
        targetAspectRatio == Rat(wh[1], wh[2])
        originalWidth == RInt(original.width)
        originalHeight == RInt(original.height)
        wider == RLt(RDiv(originalWidth, originalHeight), targetAspectRatio)
        newWidth == IF wider THEN RMul(originalHeight, targetAspectRatio)
                    ELSE originalWidth
        newHeight == IF wider THEN originalHeight
                     ELSE RDiv(originalWidth, targetAspectRatio)
        imgX == RDiv(RSub(newWidth, originalWidth), RInt(2))
        imgY == RDiv(RSub(newHeight, originalHeight), RInt(2))
        drawn == [left |-> imgX, top |-> imgY,
                  width |-> originalWidth, height |-> originalHeight]
    IN  [image |-> [width |-> RTrunc(newWidth), height |-> RTrunc(newHeight),
                    drawn |-> drawn],
         mask |-> [width |-> RTrunc(newWidth), height |-> RTrunc(newHeight),
                   fill |-> "white", black |-> drawn]]

\* handleApplyEdit, Magic Expand branch.
ApplyEditExpandRatio ==
    /\ image1Sp # NULL
    /\ expandRequestSp = NULL
    /\ expandRequestSp' = RatioCanvases(image1Sp, expandTargetRatioSp)
    /\ UNCHANGED <<expandTargetRatioSp, image1Sp, notRatio>>

\* The end of handleApplyEdit: the request is no longer in flight.
ApplyEditExpandRatioDone ==
    /\ expandRequestSp # NULL
    /\ expandRequestSp' = NULL
    /\ UNCHANGED <<expandTargetRatioSp, image1Sp, notRatio>>

\* What the claim C6 asks of a request: the drawn image is inside the image
\* canvas, and the mask has the canvas's size, is white, and is black exactly
\* over the rectangle where the image is drawn.
ExpandRequestOk(req) ==
    /\ RectInside(req.image.drawn,
                  [left |-> Zero, top |-> Zero,
                   width |-> RInt(req.image.width),
                   height |-> RInt(req.image.height)])
    /\ req.mask.width = req.image.width
    /\ req.mask.height = req.image.height
    /\ req.mask.fill = "white"
    /\ req.mask.black = req.image.drawn

(***************************************************************************)
(* The mask canvas (brush, eraser, lasso) and Apply Edit in masking mode.  *)
(* maskCanvas gives each cell of the canvas its alpha: 0 where nothing is  *)
(* painted.  The canvas is a grid of MaskXs x MaskYs cells, and a stroke   *)
(* or a fill covers whole cells.                                           *)
(***************************************************************************)
\* How many strokes and lasso fills a behaviour takes; maskStrokes counts them.
MaxMaskStrokes == 3
\* How many points a lasso selection collects.
MaxLassoPoints == 3

MaskXs == {0, 1}
MaskYs == {0, 1}
MaskCells == MaskXs \X MaskYs
MaskTools == {"brush", "eraser", "lasso"}

\* The alpha of 'rgba(192, 132, 252, 0.7)', the stroke and fill style.
brushAlpha == Rat(7, 10)
\* globalCompositeOperation 'source-over' and 'destination-out' on the alpha
\* a cell already has.
SourceOver(a) == RAdd(brushAlpha, RMul(a, RSub(RInt(1), brushAlpha)))
DestinationOut(a) == RMul(a, RSub(RInt(1), brushAlpha))

BlankCanvas == [c \in MaskCells |-> Zero]

\* ctx.stroke() or ctx.fill() over the cells, with the tool's composite
\* operation (the lasso fills with 'source-over').
Composite(canvas, tool, cells) ==
    [c \in MaskCells |->
        IF c \in cells
        THEN IF tool = "eraser" THEN DestinationOut(canvas[c])
             ELSE SourceOver(canvas[c])
        ELSE canvas[c]]

\* The cells a closed lasso path encloses: a path through fewer than three
\* distinct points has no area.
LassoCells(points) ==
    LET distinct == {points[i] : i \in 1..Len(points)}
    IN  IF Cardinality(distinct) >= 3 THEN distinct ELSE {}

\* The user has painted something: some cell of the mask canvas is not
\* transparent.
MaskPainted == \E c \in MaskCells : maskCanvas[c] # Zero

MaskInit ==
    /\ maskCanvas = BlankCanvas
    /\ activeMaskTool = "brush"
    /\ isDrawingMask = FALSE
    /\ pathPoint = NULL
    /\ lassoPoints = <<>>
    /\ maskRequest = NULL
    /\ maskStrokes = 0

\* The tool buttons: setActiveMaskTool(tool).
setActiveMaskTool ==
    /\ maskRequest = NULL
    /\ ~isDrawingMask
    /\ \E tool \in MaskTools \ {activeMaskTool} : activeMaskTool' = tool
    /\ UNCHANGED <<maskCanvas, isDrawingMask, pathPoint, lassoPoints, maskRequest,
                   maskStrokes, notMask>>

\* resizeCanvas (the effect on [isMaskingModeActive, image1Preview] and the
\* window resize listener): assigning canvas.width clears the canvas.
resizeCanvas ==
    /\ maskRequest = NULL
    /\ maskCanvas' = BlankCanvas
    /\ pathPoint' = NULL
    /\ UNCHANGED <<activeMaskTool, isDrawingMask, lassoPoints, maskRequest,
                   maskStrokes, notMask>>

clearMaskCanvas ==
    /\ maskRequest = NULL
    /\ maskCanvas' = BlankCanvas
    /\ UNCHANGED <<activeMaskTool, isDrawingMask, pathPoint, lassoPoints, maskRequest,
                   maskStrokes, notMask>>

handleMaskMouseDown ==
    /\ maskRequest = NULL
    /\ ~isDrawingMask
    /\ isDrawingMask' = TRUE
    /\ \E x \in MaskXs, y \in MaskYs :
         IF activeMaskTool = "lasso"
         THEN /\ lassoPoints' = << <<x, y>> >>
              /\ UNCHANGED pathPoint
         ELSE /\ pathPoint' = <<x, y>>
              /\ UNCHANGED lassoPoints
    /\ UNCHANGED <<maskCanvas, activeMaskTool, maskRequest, maskStrokes, notMask>>

handleMaskMouseMove ==
    /\ isDrawingMask
    /\ \E x \in MaskXs, y \in MaskYs :
         IF activeMaskTool = "lasso"
         THEN /\ Len(lassoPoints) < MaxLassoPoints
              /\ lassoPoints' = Append(lassoPoints, <<x, y>>)
              /\ UNCHANGED <<maskCanvas, pathPoint, maskStrokes>>
         ELSE /\ maskStrokes < MaxMaskStrokes
              /\ maskStrokes' = maskStrokes + 1
              /\ maskCanvas' = Composite(maskCanvas, activeMaskTool,
                                         (IF pathPoint = NULL THEN {} ELSE {pathPoint})
                                             \cup {<<x, y>>})
              /\ pathPoint' = <<x, y>>
              /\ UNCHANGED lassoPoints
    /\ UNCHANGED <<activeMaskTool, isDrawingMask, maskRequest, notMask>>

\* onMouseUp and onMouseLeave of the mask canvas.
handleMaskMouseUp ==
    /\ isDrawingMask
    /\ isDrawingMask' = FALSE
    /\ IF activeMaskTool = "lasso" /\ Len(lassoPoints) > 1
       THEN /\ maskStrokes < MaxMaskStrokes
            /\ maskStrokes' = maskStrokes + 1
            /\ maskCanvas' = Composite(maskCanvas, "lasso", LassoCells(lassoPoints))
            /\ lassoPoints' = <<>>
            /\ pathPoint' = NULL
       ELSE UNCHANGED <<maskCanvas, lassoPoints, pathPoint, maskStrokes>>
    /\ UNCHANGED <<activeMaskTool, maskRequest, notMask>>

\* exportCanvas after fillRect in black and drawImage(maskCanvas): each cell
\* is black under the brush colour at the cell's alpha.
ExportBitmap(canvas) == [c \in MaskCells |-> [over |-> "black", alpha |-> canvas[c]]]

\* canvas.toDataURL(type, quality): the quality argument applies to
\* image/jpeg and image/webp only; a PNG is the bitmap, whatever the quality.
toDataURL(bitmap, type, quality) ==
    IF type = "image/png"
    THEN [mimeType |-> type, pixels |-> bitmap]
    ELSE [mimeType |-> type, pixels |-> bitmap, quality |-> quality]

\* The mask handleApplyEdit attaches in masking mode (NULL: none).
MaskImageFile(canvas) ==
    LET exportCanvas == ExportBitmap(canvas)
        maskDataUrl == toDataURL(exportCanvas, "image/png", "default")
    IN  \* Check if not completely black (i.e., user has drawn something)
        IF maskDataUrl # toDataURL(exportCanvas, "image/png", Rat(1, 10))
        THEN maskDataUrl
        ELSE NULL

\* handleApplyEdit, masking branch (add-remove, image1 uploaded, a prompt
\* given, no stroke in progress).  The request stays in flight until
\* ApplyEditMaskDone; the model takes no canvas event in between.
ApplyEditMask ==
    /\ maskRequest = NULL
    /\ ~isDrawingMask
    /\ maskRequest' = [editFunction |-> "add-remove",
                       mask |-> MaskImageFile(maskCanvas)]
    /\ UNCHANGED <<maskCanvas, activeMaskTool, isDrawingMask, pathPoint, lassoPoints,
                   maskStrokes, notMask>>

ApplyEditMaskDone ==
    /\ maskRequest # NULL
    /\ maskRequest' = NULL
    /\ UNCHANGED <<maskCanvas, activeMaskTool, isDrawingMask, pathPoint, lassoPoints,
                   maskStrokes, notMask>>

(***************************************************************************)
(* The edit history stack: editHistory is a list of {image, effects}       *)
(* states and currentHistoryIndex the (0-based) index of the current one.  *)
(* An image is a data URL; "null" is no image.                             *)
(***************************************************************************)
\* How long the edit history grows: addStateToHistory pushes no state past it.
MaxHistoryLen == 3

ResultImages == {"imgA", "imgB"}
\* The sliders the model moves: <<effect, value>>.
EffectInputs == {<<"blur", 0>>, <<"blur", 5>>,
                 <<"brightness", 100>>, <<"brightness", 150>>}

initialEffects == [blur |-> 0, brightness |-> 100, contrast |-> 100, sepia |-> 0]

\* editHistory[currentHistoryIndex] (JavaScript arrays are 0-based).
CurrentState == editHistory[currentHistoryIndex + 1]

EditInit ==
    /\ editHistory = << [image |-> "null", effects |-> initialEffects] >>
    /\ currentHistoryIndex = 0
    /\ effects = initialEffects
    /\ generatedImage = "null"
    /\ lastEdit = NULL

\* addStateToHistory without the slice: the state is pushed after the last
\* entry and the redo entries stay.
addStateToHistoryKeepsRedo(state) ==
    LET lastState == CurrentState
    IN  IF lastState.image = state.image /\ lastState.effects = state.effects
        THEN <<editHistory, currentHistoryIndex>>
        ELSE <<Append(editHistory, state), Len(editHistory)>>

\* addStateToHistory(state): the states after the current one are dropped and
\* the state is pushed, unless it equals the current one.  The result is the
\* new <<editHistory, currentHistoryIndex>>.
addStateToHistory(state) ==
    LET newHistory == SubSeq(editHistory, 1, currentHistoryIndex + 1)
        lastState == newHistory[Len(newHistory)]
    IN  IF Len(newHistory) > 0 /\ lastState.image = state.image
           /\ lastState.effects = state.effects
        THEN <<editHistory, currentHistoryIndex>>
        ELSE <<Append(newHistory, state), Len(newHistory)>>

\* What lastEdit records of a call of addStateToHistory: the stack and the
\* index it was called on, and its argument.
AddRecord(state) ==
    [op |-> "add", history |-> editHistory, index |-> currentHistoryIndex,
     state |-> state]

\* What lastEdit records of handleUndo: the index, the displayed image and
\* the effects before it.
UndoRecord ==
    [op |-> "undo", index |-> currentHistoryIndex, image |-> generatedImage,
     effects |-> effects]

\* setNewImageResult: a new image resets its edit history.
setNewImageResult ==
    /\ \E newImage \in ResultImages :
         /\ generatedImage' = newImage
         /\ editHistory' = << [image |-> newImage, effects |-> initialEffects] >>
    /\ effects' = initialEffects
    /\ currentHistoryIndex' = 0
    /\ lastEdit' = NULL
    /\ UNCHANGED notEdit

\* The sliders are rendered with the adjustments panel, while an image is
\* displayed.  onChange of a slider (mouse, touch or keyboard).
handleEffectChange ==
    /\ generatedImage # "null"
    /\ \E in \in EffectInputs : effects' = [effects EXCEPT ![in[1]] = in[2]]
    /\ lastEdit' = NULL
    /\ UNCHANGED <<editHistory, currentHistoryIndex, generatedImage, notEdit>>

\* onMouseUp / onTouchEnd of a slider.
handleCommitEffects ==
    /\ generatedImage # "null"
    /\ LET currentImage == CurrentState.image
           state == [image |-> currentImage, effects |-> effects]
           next == addStateToHistory(state)
       IN  /\ currentImage # "null"
           /\ Len(next[1]) <= MaxHistoryLen
           /\ editHistory' = next[1]
           /\ currentHistoryIndex' = next[2]
           /\ lastEdit' = AddRecord(state)
    /\ UNCHANGED <<effects, generatedImage, notEdit>>

handleResetEffects ==
    /\ generatedImage # "null"
    /\ effects' = initialEffects
    /\ LET currentImage == CurrentState.image
           state == [image |-> currentImage, effects |-> initialEffects]
           next == addStateToHistory(state)
       IN  IF currentImage # "null"
           THEN /\ Len(next[1]) <= MaxHistoryLen
                /\ editHistory' = next[1]
                /\ currentHistoryIndex' = next[2]
                /\ lastEdit' = AddRecord(state)
           ELSE /\ UNCHANGED <<editHistory, currentHistoryIndex>>
                /\ lastEdit' = NULL
    /\ UNCHANGED <<generatedImage, notEdit>>

\* handleUndo with its guard removed.
handleUndoUnguarded ==
    /\ generatedImage # "null"
    /\ currentHistoryIndex' = currentHistoryIndex - 1
    /\ lastEdit' = NULL
    /\ UNCHANGED <<editHistory, effects, generatedImage, notEdit>>

\* The undo and redo buttons are rendered while an image is displayed.
handleUndo ==
    /\ generatedImage # "null"
    /\ currentHistoryIndex > 0
    /\ LET newIndex == currentHistoryIndex - 1
           prevState == editHistory[newIndex + 1]
       IN  /\ currentHistoryIndex' = newIndex
           /\ generatedImage' = prevState.image
           /\ effects' = prevState.effects
    /\ lastEdit' = UndoRecord
    /\ UNCHANGED <<editHistory, notEdit>>

\* lastEdit: a redo that follows an undo at once keeps what the undo
\* recorded.
handleRedo ==
    /\ generatedImage # "null"
    /\ currentHistoryIndex < Len(editHistory) - 1
    /\ LET newIndex == currentHistoryIndex + 1
           nextState == editHistory[newIndex + 1]
       IN  /\ currentHistoryIndex' = newIndex
           /\ generatedImage' = nextState.image
           /\ effects' = nextState.effects
    /\ lastEdit' = IF lastEdit # NULL /\ lastEdit.op = "undo"
                   THEN [lastEdit EXCEPT !.op = "undoRedo"]
                   ELSE NULL
    /\ UNCHANGED <<editHistory, notEdit>>

\* handleSendToEdit / handleSendToEnhance: the current image is sent to
\* another mode and the main view is cleared; the history is kept.
handleSendToEdit ==
    /\ CurrentState.image # "null"
    /\ generatedImage # "null"
    /\ generatedImage' = "null"
    /\ lastEdit' = NULL
    /\ UNCHANGED <<editHistory, currentHistoryIndex, effects, notEdit>>

(***************************************************************************)
(* The generation history of src/App.tsx: the in-memory list `history`     *)
(* (newest first) and the IndexedDB object store 'history' (keyPath 'id',  *)
(* index 'userName').  An item is modelled by its id and the userName it   *)
(* was created for (in the store, the userName field saved with it).       *)
(* IndexedDB runs the transactions on the store one at a time, in the      *)
(* order they were created: txQueue holds the ones not yet run.            *)
(***************************************************************************)
MAX_HISTORY_ITEMS == 50

\* How many times a behaviour calls addToHistory; adds counts them.
MaxAdds == 2
\* How many transactions wait in txQueue.
MaxPending == 2

Users == {"ana", "bo"}
\* Date.now() when the application starts; the stored items are older.
StartTime == 100

\* A store left by earlier sessions: ana's items with the ids 1..k.  The
\* application starts with one item fewer than the limit in it.
StoredBefore(k) == {[id |-> i, userName |-> "ana"] : i \in 1..k}

StoreInit ==
    /\ history = <<>>
    /\ currentUser = "null"
    /\ store = StoredBefore(MAX_HISTORY_ITEMS - 1)
    /\ txQueue = <<>>
    /\ now = StartTime
    /\ lastSave = NULL
    /\ adds = 0
    /\ generatingFor = "null"

\* The ids of the user's items in the store (the index 'userName').
IdsOf(st, userName) == {r.id : r \in {x \in st : x.userName = userName}}

\* The ids in descending order: the order of a 'prev' cursor over the index,
\* and of the sort (b.id - a.id) of getHistoryForUser.
RECURSIVE Descending(_)
Descending(ids) ==
    IF ids = {} THEN <<>>
    ELSE LET top == CHOOSE i \in ids : \A k \in ids : k <= i
         IN  <<top>> \o Descending(ids \ {top})

\* The items of the given ids, in that order, as records of the store.
ItemsOf(ids, userName) ==
    [i \in 1..Len(ids) |-> [id |-> ids[i], userName |-> userName]]

\* array.slice(0, n)
Slice(seq, n) == IF Len(seq) <= n THEN seq ELSE SubSeq(seq, 1, n)

\* The cursor loop of saveHistoryItem over the ids from position `from`, with
\* `count` ids already visited: the ids it deletes.
RECURSIVE CursorDeletes(_, _, _)
CursorDeletes(desc, from, count) ==
    IF from > Len(desc) THEN {}
    ELSE (IF count + 1 > MAX_HISTORY_ITEMS THEN {desc[from]} ELSE {})
             \cup CursorDeletes(desc, from + 1, count + 1)

\* The cursor loop with a limit that is off by one.
SavedStoreOffByOne(st, item) ==
    LET put == {r \in st : r.id # item.id} \cup {item}
        desc == Descending(IdsOf(put, item.userName))
        deleted == CursorDeletes(desc, 1, -1)
    IN  {r \in put : ~(r.userName = item.userName /\ r.id \in deleted)}

\* The store after the transaction of saveHistoryItem: store.put(item)
\* replaces the record with the item's id, and the cursor deletes the user's
\* items past the first MAX_HISTORY_ITEMS.
SavedStore(st, item) ==
    LET put == {r \in st : r.id # item.id} \cup {item}
        desc == Descending(IdsOf(put, item.userName))
        deleted == CursorDeletes(desc, 1, 0)
    IN  {r \in put : ~(r.userName = item.userName /\ r.id \in deleted)}

\* handleLogin / handleRegister: setCurrentUser(user); the effect on
\* [currentUser] starts getHistoryForUser.
handleLogin ==
    /\ currentUser = "null"
    /\ Len(txQueue) < MaxPending
    /\ \E user \in Users :
         /\ currentUser' = user
         /\ txQueue' = Append(txQueue, [op |-> "load", userName |-> user])
    /\ UNCHANGED <<history, store, now, lastSave, adds, generatingFor, notStore>>

\* handleLogout: setCurrentUser(null); the effect on [currentUser] empties
\* the list.
handleLogout ==
    /\ currentUser # "null"
    /\ currentUser' = "null"
    /\ history' = <<>>
    /\ UNCHANGED <<store, txQueue, now, lastSave, adds, generatingFor, notStore>>

\* addToHistory: the optimistic update of the list, then saveHistoryItem.
\* Date.now() is the last reading or later.
addToHistory ==
    /\ currentUser # "null"
    /\ adds < MaxAdds
    /\ Len(txQueue) < MaxPending
    /\ adds' = adds + 1
    /\ \E t \in {now, now + 1} :
         /\ now' = t
         /\ history' = Slice(<<[id |-> t, userName |-> currentUser]>>
                                \o history, MAX_HISTORY_ITEMS)
         /\ txQueue' = Append(txQueue, [op |-> "save", userName |-> currentUser,
                                        id |-> t])
    /\ UNCHANGED <<currentUser, store, lastSave, generatingFor, notStore>>

\* handleClearHistory: clearHistoryForUser, whose completion empties the list.
handleClearHistory ==
    /\ currentUser # "null"
    /\ Len(txQueue) < MaxPending
    /\ txQueue' = Append(txQueue, [op |-> "clear", userName |-> currentUser])
    /\ UNCHANGED <<history, currentUser, store, now, lastSave, adds, generatingFor, notStore>>

\* The transaction of saveHistoryItem runs and completes.
saveHistoryItem ==
    /\ txQueue # <<>>
    /\ Head(txQueue).op = "save"
    /\ LET tx == Head(txQueue)
           item == [id |-> tx.id, userName |-> tx.userName]
       IN  /\ store' = SavedStore(store, item)
           /\ lastSave' = [userName |-> tx.userName, id |-> tx.id,
                           before |-> IdsOf(store, tx.userName),
                           after |-> IdsOf(store', tx.userName)]
    /\ txQueue' = Tail(txQueue)
    /\ UNCHANGED <<history, currentUser, now, adds, generatingFor, notStore>>

\* The transaction of getHistoryForUser runs, and its promise resolves:
\* setHistory(userHistory).
getHistoryForUser ==
    /\ txQueue # <<>>
    /\ Head(txQueue).op = "load"
    /\ history' = ItemsOf(Descending(IdsOf(store, Head(txQueue).userName)),
                          Head(txQueue).userName)
    /\ txQueue' = Tail(txQueue)
    /\ UNCHANGED <<currentUser, store, now, lastSave, adds, generatingFor, notStore>>

\* The transaction of clearHistoryForUser runs, and its promise resolves:
\* setHistory([]).
clearHistoryForUser ==
    /\ txQueue # <<>>
    /\ Head(txQueue).op = "clear"
    /\ store' = {r \in store : r.userName # Head(txQueue).userName}
    /\ history' = <<>>
    /\ txQueue' = Tail(txQueue)
    /\ UNCHANGED <<currentUser, now, lastSave, adds, generatingFor, notStore>>

\* A studio handler that awaits the API (handleGenerate, handleApplyEdit,
\* ...) is started by the current user.  It keeps the addToHistory of the
\* render it was started in.
StudioRequestStarts ==
    /\ currentUser # "null"
    /\ generatingFor = "null"
    /\ adds < MaxAdds
    /\ generatingFor' = currentUser
    /\ UNCHANGED <<history, currentUser, store, txQueue, now, lastSave, adds,
                   notStore>>

\* The API call resolves and the handler calls that addToHistory: its
\* currentUser is the user who started the request, and its setHistory
\* updates the list of App, which stays mounted over logout and login.
StudioRequestAddsToHistory ==
    /\ generatingFor # "null"
    /\ Len(txQueue) < MaxPending
    /\ adds' = adds + 1
    /\ \E t \in {now, now + 1} :
         /\ now' = t
         /\ history' = Slice(<<[id |-> t, userName |-> generatingFor]>>
                                \o history, MAX_HISTORY_ITEMS)
         /\ txQueue' = Append(txQueue, [op |-> "save",
                                        userName |-> generatingFor, id |-> t])
    /\ generatingFor' = "null"
    /\ UNCHANGED <<currentUser, store, lastSave, notStore>>

(***************************************************************************)
(* parseApiError.  A text is a sequence of phrases (separated by words     *)
(* that match nothing); a JSON document is an object with an optional      *)
(* status, an optional message and an optional nested `error` object, as   *)
(* in the API's error format, or the literal null, or a number.            *)
(***************************************************************************)
Phrases == {"RESOURCE_EXHAUSTED", "Quota exceeded", "API key not valid",
            "PERMISSION DENIED", "Payload size exceeds", "Deadline Exceeded",
            "Quota limit", "Boom"}

\* String.prototype.toLowerCase, phrase by phrase.  The last two are status
\* values as they are written in a JSON text.
toLowerCase(phrase) ==
    CASE phrase = "RESOURCE_EXHAUSTED" -> "resource_exhausted"
      [] phrase = "Quota exceeded" -> "quota exceeded"
      [] phrase = "API key not valid" -> "api key not valid"
      [] phrase = "PERMISSION DENIED" -> "permission denied"
      [] phrase = "Payload size exceeds" -> "payload size exceeds"
      [] phrase = "Deadline Exceeded" -> "deadline exceeded"
      [] phrase = "Quota limit" -> "quota limit"
      [] phrase = "Boom" -> "boom"
      [] phrase = "INTERNAL" -> "internal"
      [] phrase = "RESOURCE\\u005fEXHAUSTED" -> "resource\\u005fexhausted"

\* The needles of parseApiError a lower-case phrase contains.
NeedlesIn(lower) ==
    CASE lower = "resource_exhausted" -> {"resource_exhausted"}
      [] lower = "quota exceeded" -> {"quota exceeded", "quota"}
      [] lower = "quota limit" -> {"quota"}
      [] lower \in {"api key not valid", "permission denied",
                    "payload size exceeds", "deadline exceeded"} -> {lower}
      [] OTHER -> {}

\* text.toLowerCase(), and lower.includes(needle)
LowerCase(text) == [i \in 1..Len(text) |-> toLowerCase(text[i])]
Includes(lower, needle) == \E i \in 1..Len(lower) : needle \in NeedlesIn(lower[i])
LowerIncludes(text, needle) == Includes(LowerCase(text), needle)

\* The texts of the model: up to two phrases.
Texts == {<<>>} \cup {<<a>> : a \in Phrases}
             \cup {<<a, b>> : a \in Phrases, b \in Phrases}
\* The message fields of the model's JSON documents.
JsonMessages == {<<>>, <<"Boom">>, <<"Quota limit">>, <<"API key not valid">>}
\* The status fields as written in the JSON text ("absent": no field); JSON
\* escapes are decoded by JSON.parse.
JsonStatuses == {"absent", "INTERNAL", "RESOURCE_EXHAUSTED",
                 "RESOURCE\\u005fEXHAUSTED"}
ParsedStatus(written) ==
    IF written = "RESOURCE\\u005fEXHAUSTED" THEN "RESOURCE_EXHAUSTED" ELSE written

JsonObjects == [status : JsonStatuses, hasMessage : BOOLEAN, message : JsonMessages]
NoNested == [absent |-> TRUE]
\* prefix: the JSON follows other text (as in "[429] {...}"), so that the
\* whole string does not parse.
JsonDocuments ==
    {[shape |-> "object", top |-> t, error |-> e, prefix |-> p] :
        t \in {o \in JsonObjects : o.hasMessage \/ o.message = <<>>},
        e \in {NoNested} \cup {o \in JsonObjects :
                                 /\ o.hasMessage \/ o.message = <<>>
                                 /\ o.message \in {<<>>, <<"Boom">>}},
        p \in BOOLEAN}
    \cup {[shape |-> "null"], [shape |-> "number"]}

RawMessages == {[kind |-> "text", text |-> t] : t \in Texts}
                   \cup {[kind |-> "json", doc |-> d] : d \in JsonDocuments}

\* What the studio's handlers catch: an Error, a string, an object with a
\* string message, an object without one, anything else (undefined, a number).
CaughtErrors ==
    {[type |-> ty, message |-> msg] :
        ty \in {"Error", "string", "object"}, msg \in RawMessages}
    \cup {[type |-> "objectNoMessage", json |-> d] :
            d \in {x \in JsonDocuments : x.shape = "object" /\ ~x.prefix
                                         /\ ~x.top.hasMessage}}
    \cup {[type |-> "other"]}

\* The phrases of a raw message, for includes(): a JSON text holds the
\* phrases of its message fields and its status values as written.
PhrasesOfObject(o) ==
    (IF o.hasMessage THEN o.message ELSE <<>>)
        \o (IF o.status = "absent" THEN <<>> ELSE <<o.status>>)
PhrasesOf(raw) ==
    IF raw.kind = "text" THEN raw.text
    ELSE IF raw.doc.shape # "object" THEN <<>>
    ELSE PhrasesOfObject(raw.doc.top)
             \o (IF raw.doc.error = NoNested THEN <<>>
                 ELSE PhrasesOfObject(raw.doc.error))

EmptyMessage == [kind |-> "text", text |-> <<>>]

\* Step 1: extract a string from the unknown error type.
potentialMessage(error) ==
    CASE error.type \in {"Error", "string", "object"} -> error.message
      [] error.type = "objectNoMessage" -> [kind |-> "json", doc |-> error.json]
      [] OTHER -> EmptyMessage

\* Step 2 with two of its checks in the other order.
KnownMessageReordered(lowerCaseMessage) ==
    IF Includes(lowerCaseMessage, "resource_exhausted") \/ Includes(lowerCaseMessage, "quota exceeded")
    THEN "quota"
    ELSE IF Includes(lowerCaseMessage, "permission denied") THEN "permission"
    ELSE IF Includes(lowerCaseMessage, "api key not valid") THEN "apiKey"
    ELSE IF Includes(lowerCaseMessage, "payload size exceeds") THEN "payload"
    ELSE IF Includes(lowerCaseMessage, "deadline exceeded") THEN "deadline"
    ELSE "none"

\* Step 2: check the string for known error messages from the API.
KnownMessage(lowerCaseMessage) ==
    IF Includes(lowerCaseMessage, "resource_exhausted") \/ Includes(lowerCaseMessage, "quota exceeded")
    THEN "quota"
    ELSE IF Includes(lowerCaseMessage, "api key not valid") THEN "apiKey"
    ELSE IF Includes(lowerCaseMessage, "permission denied") THEN "permission"
    ELSE IF Includes(lowerCaseMessage, "payload size exceeds") THEN "payload"
    ELSE IF Includes(lowerCaseMessage, "deadline exceeded") THEN "deadline"
    ELSE "none"

\* JSON.parse(potentialMessage) succeeds.
ParsesAsJson(raw) ==
    /\ raw.kind = "json"
    /\ raw.doc.shape = "object" => ~raw.doc.prefix

\* Step 3: the message the JSON branch returns, or "none" when it falls
\* through (the string is no JSON, jsonError is null, or nothing matches).
JsonMessage(raw) ==
    IF ~ParsesAsJson(raw) \/ raw.doc.shape # "object" THEN [kind |-> "none"]
    ELSE LET jsonError == raw.doc
             apiError == IF jsonError.error # NoNested THEN jsonError.error
                         ELSE jsonError.top
             truthyMessage == apiError.hasMessage /\ apiError.message # <<>>
         IN  IF ParsedStatus(apiError.status) = "RESOURCE_EXHAUSTED"
                \/ (truthyMessage /\ LowerIncludes(apiError.message, "quota"))
             THEN [kind |-> "quota"]
             ELSE IF truthyMessage
             THEN [kind |-> "ai", message |-> apiError.message]
             ELSE [kind |-> "none"]

\* The message parseApiError returns: one of the fixed messages (by kind),
\* 'Erro da IA: ' with the API's message, or the raw message.
parseApiError(error) ==
    LET raw == potentialMessage(error)
        lowerCaseMessage == LowerCase(PhrasesOf(raw))
        known == KnownMessage(lowerCaseMessage)
        json == JsonMessage(raw)
    IN  IF known # "none" THEN [kind |-> known]
        ELSE IF json.kind # "none" THEN json
        ELSE IF raw # EmptyMessage THEN [kind |-> "raw", message |-> raw]
        ELSE [kind |-> "unknown"]

ErrorInit ==
    /\ caughtError = NULL
    /\ toastError = NULL

\* A handler's catch block: setToastError(parseApiError(error)).  The model
\* follows one error at a time.
CatchError ==
    /\ caughtError = NULL
    /\ \E error \in CaughtErrors :
         /\ caughtError' = error
         /\ toastError' = parseApiError(error)
    /\ UNCHANGED notError

\* The toast is dismissed (removeToast).
DismissToast ==
    /\ toastError # NULL
    /\ caughtError' = NULL
    /\ toastError' = NULL
    /\ UNCHANGED notError

(***************************************************************************)
(* editImageWithGemini (src/services/geminiService.ts): the request it     *)
(* builds and what it makes of the response.                               *)
(*                                                                         *)
(* An optional array (candidates, parts) is Undefined or Defined(array);   *)
(* an optional object is NULL; an optional string is "undefined".          *)
(***************************************************************************)
MaxParts == 2

Undefined == <<>>

Defined(array) == <<array>>

\* JavaScript truthiness of an optional string.
Truthy(s) == s # "undefined" /\ s # ""

EditFunctions == {"add-remove", "magic-expand", "retouch", "style", "compose"}

Prompts == {"make it night", ""}

Image1Files == {[base64 |-> "SU1HMQ", mimeType |-> "image/png"]}

Image2Files == {NULL, [base64 |-> "SU1HMg", mimeType |-> "image/jpeg"]}

MaskFiles == {NULL, [base64 |-> "TUFTSw", mimeType |-> "image/png"]}

\* { inlineData: { data: file.base64, mimeType: file.mimeType } }
InlinePart(file) ==
    [inlineData |-> [data |-> file.base64, mimeType |-> file.mimeType]]

\* { text: finalPrompt }
TextPart(finalPrompt) == [text |-> finalPrompt]

UsesMaskAnyFunction(editFunction, mask) == mask # NULL

\* The mask branch is taken when a mask is given and the function is
\* add-remove or magic-expand.
UsesMask(editFunction, mask) ==
    mask # NULL /\ editFunction \in {"add-remove", "magic-expand"}

\* The instruction template wrapped around the user's prompt.
finalPrompt(prompt, editFunction, mask) ==
    IF UsesMask(editFunction, mask)
    THEN IF editFunction = "magic-expand"
         THEN [template |-> "OUTPAINTING TASK", prompt |-> prompt]
         ELSE [template |-> "INPAINTING TASK", prompt |-> prompt]
    ELSE CASE editFunction = "compose" ->
                [template |-> "unir as duas imagens", prompt |-> prompt]
           [] editFunction = "style" ->
                [template |-> "novo estilo", prompt |-> prompt]
           [] editFunction = "add-remove" ->
                [template |-> "Modifique a imagem", prompt |-> prompt]
           [] editFunction = "retouch" ->
                [template |-> "retoque sutil", prompt |-> prompt]
           [] OTHER -> [template |-> "none", prompt |-> prompt]

\* The parts array of the request, as the function pushes to it.
RequestParts(prompt, editFunction, image1, image2, mask) ==
    LET second == IF UsesMask(editFunction, mask)
                  THEN <<InlinePart(mask)>>
                  ELSE IF editFunction = "compose" /\ image2 # NULL
                       THEN <<InlinePart(image2)>>
                       ELSE <<>>
    IN  <<InlinePart(image1)>> \o second
          \o <<TextPart(finalPrompt(prompt, editFunction, mask))>>

\* ---- the response ----
ImagePng == [inlineData |-> [data |-> "UE5H", mimeType |-> "image/png"],
             text |-> "undefined"]

ImageJpeg == [inlineData |-> [data |-> "SlBH", mimeType |-> "image/jpeg"],
              text |-> "undefined"]

ReplyText == [inlineData |-> NULL, text |-> "I cannot edit this image."]

EmptyText == [inlineData |-> NULL, text |-> ""]

ThoughtPart == [inlineData |-> NULL, text |-> "undefined"]

ResponseParts == {ImagePng, ImageJpeg, ReplyText, EmptyText, ThoughtPart}

PartArrays ==
    UNION {[1..n -> ResponseParts] : n \in 0..MaxParts}

Contents ==
    {NULL, [parts |-> Undefined]}
        \cup {[parts |-> Defined(parts)] : parts \in PartArrays}

FirstCandidates == {[content |-> c] : c \in Contents}

\* A later candidate that does carry an image: only the first one counts.
OtherCandidate == [content |-> [parts |-> Defined(<<ImagePng>>)]]

CandidateArrays ==
    {<<>>} \cup {<<c>> : c \in FirstCandidates}
           \cup {<<c, OtherCandidate>> : c \in FirstCandidates}

PromptFeedbacks ==
    {NULL,
     [blockReason |-> "undefined", blockReasonMessage |-> "undefined"],
     [blockReason |-> "SAFETY", blockReasonMessage |-> "undefined"],
     [blockReason |-> "OTHER", blockReasonMessage |-> "Blocked by policy"]}

Responses ==
    {[promptFeedback |-> f, candidates |-> c] :
        f \in PromptFeedbacks,
        c \in {Undefined} \cup {Defined(a) : a \in CandidateArrays}}

\* response.promptFeedback?.blockReason
BlockReason(response) ==
    IF response.promptFeedback = NULL THEN "undefined"
    ELSE response.promptFeedback.blockReason

\* response.candidates?.[0]?.content?.parts, Undefined when a link is missing
FirstCandidateParts(response) ==
    IF response.candidates = Undefined THEN Undefined
    ELSE LET candidates == response.candidates[1]
         IN  IF Len(candidates) = 0 THEN Undefined
             ELSE IF candidates[1].content = NULL THEN Undefined
             ELSE candidates[1].content.parts

\* parts.find(p => p.inlineData)
FindInlineData(parts) ==
    LET hits == {i \in 1..Len(parts) : parts[i].inlineData # NULL}
    IN  IF hits = {} THEN NULL
        ELSE parts[CHOOSE i \in hits : \A j \in hits : i <= j]

\* parts.find(p => p.text)
FindText(parts) ==
    LET hits == {i \in 1..Len(parts) : Truthy(parts[i].text)}
    IN  IF hits = {} THEN NULL
        ELSE parts[CHOOSE i \in hits : \A j \in hits : i <= j]

\* `data:${mimeType};base64,${data}`
DataUrl(inlineData) ==
    <<"data:", inlineData.mimeType, ";base64,", inlineData.data>>

\* What the function does with the parts of the first candidate.
PartsResult(parts) ==
    LET imagePart == FindInlineData(parts)
        textPart == FindText(parts)
    IN  IF imagePart # NULL
        THEN [returned |-> DataUrl(imagePart.inlineData)]
        ELSE IF textPart # NULL
        THEN [thrown |-> "A edição de imagem falhou. A IA respondeu:",
              detail |-> textPart.text]
        ELSE [thrown |-> "A edição de imagem falhou, nenhuma imagem foi retornada.",
              detail |-> "undefined"]

ResponseResultImageFirst(response) ==
    LET parts == FirstCandidateParts(response)
    IN  IF parts # Undefined /\ FindInlineData(parts[1]) # NULL
        THEN PartsResult(parts[1])
        ELSE IF Truthy(BlockReason(response))
        THEN [thrown |-> "Edição bloqueada por segurança. Motivo:",
              detail |-> response.promptFeedback.blockReason]
        ELSE IF parts = Undefined
        THEN [thrown |-> "Resposta inválida do modelo de IA durante a edição.",
              detail |-> "undefined"]
        ELSE PartsResult(parts[1])

\* The outcome of editImageWithGemini for a resolved generateContent call.
ResponseResult(response) ==
    LET parts == FirstCandidateParts(response)
    IN  IF Truthy(BlockReason(response))
        THEN [thrown |-> "Edição bloqueada por segurança. Motivo:",
              detail |-> IF Truthy(response.promptFeedback.blockReasonMessage)
                         THEN response.promptFeedback.blockReasonMessage
                         ELSE response.promptFeedback.blockReason]
        ELSE IF parts = Undefined
        THEN [thrown |-> "Resposta inválida do modelo de IA durante a edição.",
              detail |-> "undefined"]
        ELSE PartsResult(parts[1])

GeminiInit ==
    /\ geminiCall = NULL
    /\ geminiRequest = NULL
    /\ geminiResponse = NULL
    /\ editResult = NULL

\* editImageWithGemini is called (handleApplyEdit) and sends its request.
editImageWithGemini ==
    /\ geminiCall = NULL
    /\ \E prompt \in Prompts, editFunction \in EditFunctions,
          image1 \in Image1Files, image2 \in Image2Files, mask \in MaskFiles :
         /\ geminiCall' = [prompt |-> prompt, editFunction |-> editFunction,
                           image1 |-> image1, image2 |-> image2, mask |-> mask]
         /\ geminiRequest' =
              [model |-> "gemini-2.5-flash-image-preview",
               contents |-> [parts |-> RequestParts(prompt, editFunction,
                                                    image1, image2, mask)]]
    /\ UNCHANGED <<geminiResponse, editResult, notGemini>>

\* generateContent resolves and the function returns or throws.
generateContentResolves ==
    /\ geminiRequest # NULL
    /\ editResult = NULL
    /\ \E response \in Responses :
         /\ geminiResponse' = response
         /\ editResult' = ResponseResult(response)
    /\ UNCHANGED <<geminiCall, geminiRequest, notGemini>>

\* generateContent rejects: the await throws and the error propagates.
generateContentRejects ==
    /\ geminiRequest # NULL
    /\ editResult = NULL
    /\ editResult' = [thrown |-> "ApiError", detail |-> "undefined"]
    /\ UNCHANGED <<geminiCall, geminiRequest, geminiResponse, notGemini>>

\* The caller has consumed the result (handleApplyEdit's try/catch/finally).
editSettled ==
    /\ editResult # NULL
    /\ geminiCall' = NULL
    /\ geminiRequest' = NULL
    /\ geminiResponse' = NULL
    /\ editResult' = NULL
    /\ UNCHANGED notGemini

(***************************************************************************)
(* Object URLs of the studio: the previews of uploaded files and the       *)
(* generated video, from mount to unmount.  Both revisions of the studio   *)
(* component are followed: src/components/StudioPage.tsx cleans up in one  *)
(* effect that runs on unmount; src/unnamed/part_000 has one effect per    *)
(* single preview, keyed on it, and an unmount effect for the reference    *)
(* images.                                                                 *)
(***************************************************************************)
MaxUrls == 3

maxReferenceImages == 5

Revisions == {"StudioPage.tsx", "part_000"}

PreviewSlots == {"image1Preview", "image2Preview", "enhanceImagePreview",
                 "videoReferencePreview"}

\* URL.createObjectURL: a URL no earlier call returned.
createObjectURL(count) == [blob |-> count + 1]

\* URL.revokeObjectURL on each of the urls (null is never passed).
revokeObjectURL(live, urls) == live \ (urls \ {NULL})

PreviewUrlsOf(refs) == {refs[i].previewUrl : i \in 1..Len(refs)}

\* The state a cleanup closure reads: the values of the render it was
\* created in.
Closure(refs, singlePreviews, video) ==
    [referenceImageFiles |-> refs, previews |-> singlePreviews,
     videoBlobUrl |-> video]

\* The urls the one unmount effect of StudioPage.tsx revokes.
UnmountRevokes(closure) ==
    PreviewUrlsOf(closure.referenceImageFiles)
        \cup {closure.previews[slot] : slot \in PreviewSlots}
        \cup {closure.videoBlobUrl}

\* A single preview (or the video url) goes from old to new.  In part_000
\* the cleanup of the effect keyed on it revokes the old value.
KeyedCleanup(revision, live, old, new) ==
    IF revision = "part_000" /\ old # new
    THEN revokeObjectURL(live, {old})
    ELSE live

UrlInit ==
    /\ studioPhase = "initial"
    /\ studioRevision = "none"
    /\ objectUrls = {}
    /\ urlCount = 0
    /\ referenceImageFiles = <<>>
    /\ previews = [slot \in PreviewSlots |-> NULL]
    /\ videoBlobUrl = NULL
    /\ unmountClosure = NULL
    /\ beforeImage = NULL
    /\ savedBeforeImageUrls = {}

\* The studio mounts: state is initial and the effects run once; the unmount
\* cleanup (dependency list []) keeps the closure of this first render.
MountStudio ==
    /\ studioPhase = "initial"
    /\ \E revision \in Revisions : studioRevision' = revision
    /\ studioPhase' = "mounted"
    /\ unmountClosure' = Closure(referenceImageFiles, previews, videoBlobUrl)
    /\ UNCHANGED <<objectUrls, urlCount, referenceImageFiles, previews,
                   videoBlobUrl, beforeImage, savedBeforeImageUrls,
                   notUrl>>

\* handleSelectFile: a file is chosen for one of the single upload areas;
\* fileToImageFile then succeeds or fails (the catch sets the preview null).
handleSelectFile ==
    /\ studioPhase = "mounted"
    /\ urlCount < MaxUrls
    /\ \E slot \in PreviewSlots, processed \in BOOLEAN :
         LET previewUrl == createObjectURL(urlCount)
             shown == KeyedCleanup(studioRevision,
                                   objectUrls \cup {previewUrl},
                                   previews[slot], previewUrl)
         IN  IF processed
             THEN /\ previews' = [previews EXCEPT ![slot] = previewUrl]
                  /\ objectUrls' = shown
                  /\ beforeImage' = NULL
             ELSE /\ previews' = [previews EXCEPT ![slot] = NULL]
                  /\ objectUrls' = KeyedCleanup(studioRevision, shown,
                                                previewUrl, NULL)
                  /\ UNCHANGED beforeImage
    /\ urlCount' = urlCount + 1
    /\ UNCHANGED <<studioPhase, studioRevision, referenceImageFiles,
                   videoBlobUrl, unmountClosure, savedBeforeImageUrls,
                   notUrl>>

\* handleAddReferenceImage: a reference image is added; when processing the
\* file fails the entry is dropped and its url revoked.
handleAddReferenceImage ==
    /\ studioPhase = "mounted"
    /\ urlCount < MaxUrls
    /\ Len(referenceImageFiles) < maxReferenceImages
    /\ \E processed \in BOOLEAN :
         LET previewUrl == createObjectURL(urlCount)
         IN  IF processed
             THEN /\ referenceImageFiles' =
                       Append(referenceImageFiles,
                              [id |-> urlCount + 1, previewUrl |-> previewUrl])
                  /\ objectUrls' = objectUrls \cup {previewUrl}
             ELSE /\ referenceImageFiles' = referenceImageFiles
                  /\ objectUrls' =
                       revokeObjectURL(objectUrls \cup {previewUrl},
                                       {previewUrl})
    /\ urlCount' = urlCount + 1
    /\ UNCHANGED <<studioPhase, studioRevision, previews, videoBlobUrl,
                   unmountClosure, beforeImage, savedBeforeImageUrls,
                   notUrl>>

\* handleRemoveReferenceImage
handleRemoveReferenceImage ==
    /\ studioPhase = "mounted"
    /\ \E i \in 1..Len(referenceImageFiles) :
         /\ objectUrls' = revokeObjectURL(objectUrls,
                                          {referenceImageFiles[i].previewUrl})
         /\ referenceImageFiles' =
              SubSeq(referenceImageFiles, 1, i - 1)
                \o SubSeq(referenceImageFiles, i + 1, Len(referenceImageFiles))
    /\ UNCHANGED <<studioPhase, studioRevision, urlCount, previews,
                   videoBlobUrl, unmountClosure, beforeImage, savedBeforeImageUrls,
                   notUrl>>

\* clearReferenceImages
clearReferenceImages ==
    /\ studioPhase = "mounted"
    /\ referenceImageFiles # <<>>
    /\ objectUrls' = revokeObjectURL(objectUrls,
                                     PreviewUrlsOf(referenceImageFiles))
    /\ referenceImageFiles' = <<>>
    /\ UNCHANGED <<studioPhase, studioRevision, urlCount, previews,
                   videoBlobUrl, unmountClosure, beforeImage, savedBeforeImageUrls,
                   notUrl>>

\* handleRemoveVideoReferenceImage
handleRemoveVideoReferenceImage ==
    /\ studioPhase = "mounted"
    /\ previews["videoReferencePreview"] # NULL
    /\ objectUrls' = revokeObjectURL(objectUrls,
                                     {previews["videoReferencePreview"]})
    /\ previews' = [previews EXCEPT !["videoReferencePreview"] = NULL]
    /\ UNCHANGED <<studioPhase, studioRevision, urlCount,
                   referenceImageFiles, videoBlobUrl, unmountClosure, beforeImage, savedBeforeImageUrls,
                   notUrl>>

\* handleGenerateVideo: the last video is cleared, then the service returns
\* the blob url of the new one, or throws.
handleGenerateVideo ==
    /\ studioPhase = "mounted"
    /\ urlCount < MaxUrls
    /\ \E generated \in BOOLEAN :
         LET cleared == KeyedCleanup(studioRevision, objectUrls,
                                     videoBlobUrl, NULL)
             blobUrl == createObjectURL(urlCount)
         IN  IF generated
             THEN /\ videoBlobUrl' = blobUrl
                  /\ objectUrls' = cleared \cup {blobUrl}
                  /\ urlCount' = urlCount + 1
             ELSE /\ videoBlobUrl' = NULL
                  /\ objectUrls' = cleared
                  /\ urlCount' = urlCount
    /\ beforeImage' = NULL
    /\ UNCHANGED <<studioPhase, studioRevision, referenceImageFiles,
                   previews, unmountClosure, savedBeforeImageUrls,
                   notUrl>>

\* The studio unmounts (the route changes or the user logs out) and React
\* runs the cleanups of its effects.
UnmountStudio ==
    /\ studioPhase = "mounted"
    /\ studioPhase' = "unmounted"
    /\ objectUrls' =
         IF studioRevision = "part_000"
         THEN revokeObjectURL(objectUrls,
                  {previews[slot] : slot \in PreviewSlots}
                    \cup {videoBlobUrl}
                    \cup PreviewUrlsOf(unmountClosure.referenceImageFiles))
         ELSE revokeObjectURL(objectUrls, UnmountRevokes(unmountClosure))
    /\ UNCHANGED <<studioRevision, urlCount, referenceImageFiles, previews,
                   videoBlobUrl, unmountClosure, beforeImage, savedBeforeImageUrls,
                   notUrl>>

\* handleApplyEdit succeeds: setNewImageResult(result, image1Preview) and
\* addToHistory({..., beforeImageUrl: image1Preview}).
ApplyEditResult ==
    /\ studioPhase = "mounted"
    /\ previews["image1Preview"] # NULL
    /\ beforeImage' = previews["image1Preview"]
    /\ savedBeforeImageUrls' =
         savedBeforeImageUrls \cup {previews["image1Preview"]}
    /\ UNCHANGED <<studioPhase, studioRevision, objectUrls, urlCount,
                   referenceImageFiles, previews, videoBlobUrl,
                   unmountClosure, notUrl>>

\* handleApplyEnhancement succeeds: the same with enhanceImagePreview.
ApplyEnhancementResult ==
    /\ studioPhase = "mounted"
    /\ previews["enhanceImagePreview"] # NULL
    /\ beforeImage' = previews["enhanceImagePreview"]
    /\ savedBeforeImageUrls' =
         savedBeforeImageUrls \cup {previews["enhanceImagePreview"]}
    /\ UNCHANGED <<studioPhase, studioRevision, objectUrls, urlCount,
                   referenceImageFiles, previews, videoBlobUrl,
                   unmountClosure, notUrl>>

\* handleSidebarHistoryClick on a saved item that has a beforeImageUrl:
\* setNewImageResult(item.imageUrl, item.beforeImageUrl).
handleSidebarHistoryClick ==
    /\ studioPhase = "mounted"
    /\ \E beforeImageUrl \in savedBeforeImageUrls :
         beforeImage' = beforeImageUrl
    /\ UNCHANGED <<studioPhase, studioRevision, objectUrls, urlCount,
                   referenceImageFiles, previews, videoBlobUrl,
                   unmountClosure, savedBeforeImageUrls, notUrl>>

(***************************************************************************)
(* JavaScript strings as sequences of characters, for the checks that trim *)
(* a prompt.                                                               *)
(***************************************************************************)
WhiteSpace == {" ", "\t", "\n"}

\* String.prototype.trim: the white space at both ends is removed.
RECURSIVE TrimStart(_)
TrimStart(str) ==
    IF str # <<>> /\ Head(str) \in WhiteSpace THEN TrimStart(Tail(str))
    ELSE str

RECURSIVE TrimEnd(_)
TrimEnd(str) ==
    IF str # <<>> /\ str[Len(str)] \in WhiteSpace
    THEN TrimEnd(SubSeq(str, 1, Len(str) - 1))
    ELSE str

trim(str) == TrimEnd(TrimStart(str))

(***************************************************************************)
(* The list of reference images (Create mode) and its limit.  A handler    *)
(* reads the list of the render it was created in (renderedReferences);    *)
(* state updates are functional (prev => ...).  An update made in a React  *)
(* event handler is rendered before the next event; one made in a promise  *)
(* callback is rendered later, by CommitReferences.                        *)
(***************************************************************************)
MaxReferenceAdds == 6

\* files being read at once
MaxReading == 2

NoToast == "none"

MaxReferencesError == "Você pode enviar no máximo 5 imagens de referência."

AtCapacityOffByOne(rendered) == Len(rendered) > maxReferenceImages

\* referenceImageFiles.length >= 5, on the list the handler closed over
AtCapacity(rendered) == Len(rendered) >= maxReferenceImages

\* prev.filter(img => img.id !== id)
WithoutId(list, id) == SelectSeq(list, LAMBDA img : img.id # id)

\* prev.map(img => img.id === id ? { ...img, imageFile } : img)
WithImageFile(list, id) ==
    [i \in 1..Len(list) |->
        IF list[i].id = id THEN [list[i] EXCEPT !.imageFile = "loaded"]
        ELSE list[i]]

ReferenceInit ==
    /\ referenceList = <<>>
    /\ renderedReferences = <<>>
    /\ readingReferences = {}
    /\ referenceToast = NoToast
    /\ referenceAdds = 0
    /\ lastReferenceAdd = NULL
    /\ lastGenerate = NULL

\* handleAddReferenceImage(file), from the file input or from handleAppDrop
\* in Create mode (each passes one file per event).
AddReferenceImage ==
    /\ referenceAdds < MaxReferenceAdds
    /\ Cardinality(readingReferences) < MaxReading
    /\ referenceAdds' = referenceAdds + 1
    /\ IF AtCapacity(renderedReferences)
       THEN /\ referenceToast' = MaxReferencesError
            /\ referenceList' = referenceList
            /\ readingReferences' = readingReferences
       ELSE /\ referenceList' =
                 Append(referenceList,
                        [id |-> referenceAdds + 1, imageFile |-> "null"])
            /\ readingReferences' = readingReferences \cup {referenceAdds + 1}
            /\ referenceToast' = referenceToast
    /\ renderedReferences' = referenceList'
    /\ lastReferenceAdd' = [present |-> Len(referenceList),
                            unchanged |-> (referenceList' = referenceList),
                            toast |-> referenceToast']
    /\ lastGenerate' = NULL
    /\ UNCHANGED notReference

\* fileToImageFile(file).then(...): the entry gets its image data.
ReferenceFileRead ==
    /\ \E id \in readingReferences :
         /\ readingReferences' = readingReferences \ {id}
         /\ referenceList' = WithImageFile(referenceList, id)
    /\ referenceToast' = NoToast
    /\ lastGenerate' = NULL
    /\ UNCHANGED <<renderedReferences, referenceAdds, lastReferenceAdd,
                   notReference>>

\* fileToImageFile(file).catch(...): the entry is dropped.
ReferenceFileFailed ==
    /\ \E id \in readingReferences :
         /\ readingReferences' = readingReferences \ {id}
         /\ referenceList' = WithoutId(referenceList, id)
    /\ referenceToast' = "Falha ao processar"
    /\ lastGenerate' = NULL
    /\ UNCHANGED <<renderedReferences, referenceAdds, lastReferenceAdd,
                   notReference>>

\* React renders the updates made in promise callbacks.
CommitReferences ==
    /\ renderedReferences # referenceList
    /\ renderedReferences' = referenceList
    /\ lastGenerate' = NULL
    /\ UNCHANGED <<referenceList, readingReferences, referenceToast,
                   referenceAdds, lastReferenceAdd, notReference>>

\* handleRemoveReferenceImage(idToRemove), on an image of the rendered list.
RemoveReferenceImage ==
    /\ \E i \in 1..Len(renderedReferences) :
         referenceList' = WithoutId(referenceList, renderedReferences[i].id)
    /\ renderedReferences' = referenceList'
    /\ lastGenerate' = NULL
    /\ UNCHANGED <<readingReferences, referenceToast, referenceAdds,
                   lastReferenceAdd, notReference>>

\* How many reference images are added in a run that clicks GERAR.
MaxGenerateAdds == 3

GeneratePrompts == {<<>>, <<" ", "\n">>, <<" ", "a", " ">>}

NoGeneratePromptError == "Por favor, insira um prompt."

UnprocessedReferenceError ==
    "Aguarde o processamento de todas as imagens de referência."

\* referenceImageFiles.some(ref => ref.imageFile === null)
SomeUnprocessed(rendered) ==
    \E i \in 1..Len(rendered) : rendered[i].imageFile = "null"

\* referenceImageFiles.map(ref => ref.imageFile).filter(img => img !== null),
\* each image file named by the id of its entry.
validReferenceImages(rendered) ==
    LET processed == SelectSeq(rendered, LAMBDA ref : ref.imageFile # "null")
    IN  [i \in 1..Len(processed) |-> processed[i].id]

\* The second check of handleGenerate passes whatever the list holds.
GenerateErrorListUnchecked(text, rendered) ==
    IF trim(text) = <<>> THEN NoGeneratePromptError
    ELSE NoToast

\* The two checks of handleGenerate, in the order of the code: the error to
\* report, NoToast when both pass.
GenerateError(text, rendered) ==
    IF trim(text) = <<>> THEN NoGeneratePromptError
    ELSE IF SomeUnprocessed(rendered) THEN UnprocessedReferenceError
    ELSE NoToast

\* handleAddReferenceImage, in the runs that click GERAR.
AddReferenceForGenerate ==
    /\ referenceAdds < MaxGenerateAdds
    /\ AddReferenceImage

\* handleGenerate, on the list of the last render and the prompt typed: a
\* failed check sets the error toast and returns; otherwise
\* generateImageWithGemini is called with the processed reference images.
\* lastGenerate records the prompt read, the request made (NULL when none)
\* and the list and the reads in progress before the call.
GenerateClicked ==
    /\ \E text \in GeneratePrompts :
         LET error == GenerateError(text, renderedReferences)
         IN  /\ referenceToast' =
                   IF error # NoToast THEN error ELSE referenceToast
             /\ lastGenerate' =
                   [prompt |-> text,
                    before |-> <<referenceList, readingReferences>>,
                    request |->
                      IF error # NoToast THEN NULL
                      ELSE [prompt |-> text,
                            referenceImages |->
                              validReferenceImages(renderedReferences)]]
    /\ UNCHANGED <<referenceList, renderedReferences, readingReferences,
                   referenceAdds, lastReferenceAdd, notReference>>

(***************************************************************************)
(* User settings (creation function and aspect ratio) kept in              *)
(* localStorage under a key per user, loaded when the studio mounts and    *)
(* saved by an effect whenever one of them changes.                        *)
(***************************************************************************)
MaxSettingsMounts == 3

CreateFunctions == {"free", "cinema", "video"}

SettingRatios == {"1:1", "16:9", "9:16"}

initialSettings == [activeCreateFunc |-> "free", aspectRatio |-> "1:1"]

settingsKeyShared(userName) == <<"gx-verse-ai-studio-settings-">>

\* `gx-verse-ai-studio-settings-${currentUser.name}`
settingsKey(userName) == <<"gx-verse-ai-studio-settings-", userName>>

\* the keys localStorage may hold
SettingsKeys ==
    {<<"gx-verse-ai-studio-settings-">>}
        \cup {<<"gx-verse-ai-studio-settings-", u>> : u \in Users}

\* JSON.stringify({ activeCreateFunc, aspectRatio })
StringifySettings(settings) ==
    <<"{", "activeCreateFunc", settings.activeCreateFunc,
      "aspectRatio", settings.aspectRatio, "}">>

\* JSON.parse of a stored settings string
ParseSettings(text) == [activeCreateFunc |-> text[3], aspectRatio |-> text[5]]

\* The load effect: stored values replace the ones of the first render.
LoadedSettings(storage, userName, current) ==
    IF storage[settingsKey(userName)] = <<>> THEN current
    ELSE ParseSettings(storage[settingsKey(userName)])

\* The save effect: localStorage.setItem(settingsKey, JSON.stringify(...)).
SavedSettings(storage, userName, settings) ==
    [storage EXCEPT ![settingsKey(userName)] = StringifySettings(settings)]

SettingsInit ==
    /\ settingsStorage = [k \in SettingsKeys |-> <<>>]
    /\ settingsUser = "null"
    /\ activeCreateFunc = initialSettings.activeCreateFunc
    /\ aspectRatio = initialSettings.aspectRatio
    /\ lastChosen = [u \in Users |-> NULL]
    /\ settingsMounts = 0

\* The studio mounts for a user.  The load effect reads the stored settings,
\* the save effect of the same commit writes the values of the first render,
\* and the render that follows the load saves the loaded values.
MountStudioSettings ==
    /\ settingsUser = "null"
    /\ settingsMounts < MaxSettingsMounts
    /\ \E userName \in Users :
         LET loaded == LoadedSettings(settingsStorage, userName,
                                      initialSettings)
             firstSave == SavedSettings(settingsStorage, userName,
                                        initialSettings)
         IN  /\ settingsUser' = userName
             /\ activeCreateFunc' = loaded.activeCreateFunc
             /\ aspectRatio' = loaded.aspectRatio
             /\ settingsStorage' = SavedSettings(firstSave, userName, loaded)
    /\ settingsMounts' = settingsMounts + 1
    /\ UNCHANGED <<lastChosen, notSettings>>

\* A function card is clicked: setActiveCreateFunc, then the save effect.
SelectCreateFunction ==
    /\ settingsUser # "null"
    /\ \E func \in CreateFunctions :
         /\ activeCreateFunc' = func
         /\ settingsStorage' =
              SavedSettings(settingsStorage, settingsUser,
                  [activeCreateFunc |-> func, aspectRatio |-> aspectRatio])
         /\ lastChosen' = [lastChosen EXCEPT ![settingsUser] =
                  [activeCreateFunc |-> func, aspectRatio |-> aspectRatio]]
    /\ UNCHANGED <<settingsUser, aspectRatio, settingsMounts, notSettings>>

\* A ratio button is clicked: setAspectRatio, then the save effect.
SelectAspectRatio ==
    /\ settingsUser # "null"
    /\ \E ratio \in SettingRatios :
         /\ aspectRatio' = ratio
         /\ settingsStorage' =
              SavedSettings(settingsStorage, settingsUser,
                  [activeCreateFunc |-> activeCreateFunc,
                   aspectRatio |-> ratio])
         /\ lastChosen' = [lastChosen EXCEPT ![settingsUser] =
                  [activeCreateFunc |-> activeCreateFunc,
                   aspectRatio |-> ratio]]
    /\ UNCHANGED <<settingsUser, activeCreateFunc, settingsMounts,
                   notSettings>>

\* The studio unmounts (logout or a route outside the studio).
UnmountStudioSettings ==
    /\ settingsUser # "null"
    /\ settingsUser' = "null"
    /\ activeCreateFunc' = initialSettings.activeCreateFunc
    /\ aspectRatio' = initialSettings.aspectRatio
    /\ UNCHANGED <<settingsStorage, lastChosen, settingsMounts, notSettings>>

(***************************************************************************)
(* The loading flags of the studio.  Generate, Apply Edit and Apply        *)
(* Enhancement set isLoading; upscale and variations set their own flags;  *)
(* all of them end in finishLoadingProgress, whose 500 ms timer clears     *)
(* every flag.                                                             *)
(***************************************************************************)
MaxRequests == 2

MaxTimers == 2

\* How many progress intervals the studio starts in a run.
MaxIntervals == 4

\* The interval state, for the steps that start and clear none.
intervalState == <<progressIntervalRef, intervals, capped, intervalCount>>

\* startLoadingProgress: setProgress(0) and a new 100 ms interval, whose id
\* replaces the one in progressIntervalRef (ids count from 1, 0 is null).
startLoadingProgress ==
    /\ intervalCount < MaxIntervals
    /\ progress' = "0"
    /\ intervalCount' = intervalCount + 1
    /\ progressIntervalRef' = intervalCount + 1
    /\ intervals' = intervals \cup {intervalCount + 1}
    /\ UNCHANGED capped

\* clearInterval(progressIntervalRef.current): the interval the ref names
\* now, whichever operation started it.
clearProgressInterval ==
    /\ intervals' = intervals \ {progressIntervalRef}
    /\ capped' = capped \ {progressIntervalRef}
    /\ UNCHANGED <<progressIntervalRef, intervalCount>>

\* A request is removed from the list of those in flight.
RemoveAt(seq, i) == SubSeq(seq, 1, i - 1) \o SubSeq(seq, i + 1, Len(seq))

\* The button of a main request is rendered with disabled={isLoading}.
ButtonEnabled(loading) == ~loading

LoadingInit ==
    /\ isLoading = FALSE
    /\ isUpscaling = FALSE
    /\ isGeneratingVariations = FALSE
    /\ progress = "null"
    /\ requests = <<>>
    /\ upscales = 0
    /\ variationRuns = 0
    /\ finishTimers = 0
    /\ hasImage = FALSE
    /\ progressIntervalRef = 0
    /\ intervals = {}
    /\ capped = {}
    /\ intervalCount = 0

\* handleGenerate, with a prompt entered and the references processed:
\* setIsLoading(true), startLoadingProgress(...), and the request goes out.
handleGenerate ==
    /\ ButtonEnabled(isLoading)
    /\ Len(requests) < MaxRequests
    /\ isLoading' = TRUE
    /\ startLoadingProgress
    /\ requests' = Append(requests, [kind |-> "generate", phase |-> "calling"])
    /\ UNCHANGED <<isUpscaling, isGeneratingVariations, upscales,
                   variationRuns, finishTimers, hasImage, notLoading>>

\* handleApplyEnhancement, with an image loaded
handleApplyEnhancement ==
    /\ ButtonEnabled(isLoading)
    /\ Len(requests) < MaxRequests
    /\ isLoading' = TRUE
    /\ startLoadingProgress
    /\ requests' = Append(requests, [kind |-> "enhance", phase |-> "calling"])
    /\ UNCHANGED <<isUpscaling, isGeneratingVariations, upscales,
                   variationRuns, finishTimers, hasImage, notLoading>>

\* handleApplyEdit, past its validation.  In masking mode and in Magic
\* Expand it first loads the source image into an Image element.
handleApplyEdit ==
    /\ ButtonEnabled(isLoading)
    /\ Len(requests) < MaxRequests
    /\ isLoading' = TRUE
    /\ startLoadingProgress
    /\ \E needsSource \in BOOLEAN :
         requests' = Append(requests,
                            [kind |-> "edit",
                             phase |-> IF needsSource THEN "loadingSource"
                                       ELSE "calling"])
    /\ UNCHANGED <<isUpscaling, isGeneratingVariations, upscales,
                   variationRuns, finishTimers, hasImage, notLoading>>

\* originalImage.onload fires, the mask is prepared, the API is called.
SourceImageLoads ==
    /\ \E i \in 1..Len(requests) :
         /\ requests[i].phase = "loadingSource"
         /\ requests' = [requests EXCEPT ![i].phase = "calling"]
    /\ UNCHANGED <<isLoading, isUpscaling, isGeneratingVariations, progress,
                   upscales, variationRuns, finishTimers, hasImage,
                   intervalState,
                   notLoading>>

\* The source image cannot be loaded: only onload is set, so the promise
\* the handler awaits never settles.
SourceImageFails ==
    /\ \E i \in 1..Len(requests) :
         /\ requests[i].phase = "loadingSource"
         /\ requests' = [requests EXCEPT ![i].phase = "sourceFailed"]
    /\ UNCHANGED <<isLoading, isUpscaling, isGeneratingVariations, progress,
                   upscales, variationRuns, finishTimers, hasImage,
                   intervalState,
                   notLoading>>

\* stopProgress() and finishLoadingProgress(), one after the other in the
\* finally block: both clear the interval in the ref, then setProgress(100)
\* and the 500 ms timer is set.
finishLoadingProgress ==
    /\ finishTimers < MaxTimers
    /\ clearProgressInterval
    /\ progress' = "100"
    /\ finishTimers' = finishTimers + 1

\* The API call of a main request resolves or rejects (try / catch /
\* finally of its handler).
RequestSettles ==
    /\ \E i \in 1..Len(requests), succeeded \in BOOLEAN :
         /\ requests[i].phase = "calling"
         /\ requests' = RemoveAt(requests, i)
         /\ hasImage' = (hasImage \/ succeeded)
    /\ finishLoadingProgress
    /\ UNCHANGED <<isLoading, isUpscaling, isGeneratingVariations, upscales,
                   variationRuns, notLoading>>

\* handleUpscale, from the toolbar shown under the result image
handleUpscale ==
    /\ hasImage
    /\ ~isLoading
    /\ ~isUpscaling
    /\ upscales < MaxRequests
    /\ isUpscaling' = TRUE
    /\ startLoadingProgress
    /\ upscales' = upscales + 1
    /\ UNCHANGED <<isLoading, isGeneratingVariations, requests, variationRuns,
                   finishTimers, hasImage, notLoading>>

\* The upscale resolves or rejects.
UpscaleSettles ==
    /\ upscales > 0
    /\ upscales' = upscales - 1
    /\ finishLoadingProgress
    /\ UNCHANGED <<isLoading, isUpscaling, isGeneratingVariations, requests,
                   variationRuns, hasImage, notLoading>>

\* handleGenerateVariations, with an image and its generation data
handleGenerateVariations ==
    /\ hasImage
    /\ ~isLoading
    /\ ~isGeneratingVariations
    /\ variationRuns < MaxRequests
    /\ isGeneratingVariations' = TRUE
    /\ startLoadingProgress
    /\ variationRuns' = variationRuns + 1
    /\ UNCHANGED <<isLoading, isUpscaling, requests, upscales, finishTimers,
                   hasImage, notLoading>>

\* The variations arrive (some or none): finishLoadingProgress, and with no
\* result the catch also clears the variations flag and the progress.
VariationsSettle ==
    /\ variationRuns > 0
    /\ variationRuns' = variationRuns - 1
    /\ finishTimers < MaxTimers
    /\ finishTimers' = finishTimers + 1
    /\ clearProgressInterval
    /\ \E some \in BOOLEAN :
         IF some
         THEN /\ progress' = "100"
              /\ isGeneratingVariations' = isGeneratingVariations
         ELSE /\ progress' = "null"
              /\ isGeneratingVariations' = FALSE
    /\ UNCHANGED <<isLoading, isUpscaling, requests, upscales, hasImage,
                   notLoading>>

\* The 500 ms timer of finishLoadingProgress fires.
FinishTimerFires ==
    /\ finishTimers > 0
    /\ finishTimers' = finishTimers - 1
    /\ progress' = "null"
    /\ isLoading' = FALSE
    /\ isUpscaling' = FALSE
    /\ isGeneratingVariations' = FALSE
    /\ UNCHANGED <<requests, upscales, variationRuns, hasImage, intervalState,
                   notLoading>>

\* The callback of a running progress interval, every 100 ms: below 99 it
\* shows its own count; from 99 on it clears the interval in the ref, which
\* is itself only while no later operation has replaced the ref.
ProgressIntervalTicks ==
    /\ \E id \in intervals, reaches99 \in BOOLEAN :
         IF reaches99 \/ id \in capped
         THEN /\ intervals' = intervals \ {progressIntervalRef}
              /\ capped' = (capped \cup {id}) \ {progressIntervalRef}
              /\ UNCHANGED progress
         ELSE /\ progress' = "50"
              /\ UNCHANGED <<intervals, capped>>
    /\ UNCHANGED <<isLoading, isUpscaling, isGeneratingVariations, requests,
                   upscales, variationRuns, finishTimers, hasImage,
                   progressIntervalRef, intervalCount, notLoading>>

(***************************************************************************)
(* An uploader slot (image1 of Edit mode): the file data, its preview and  *)
(* the reads of fileToImageFile in progress.  A file is named by the       *)
(* number of its selection, 0 standing for null.                         *)
(***************************************************************************)
MaxSelections == 4

SlotInit ==
    /\ slotImage = 0
    /\ slotPreview = 0
    /\ slotReading = {}
    /\ slotUploading = FALSE
    /\ selections = 0

\* UploadArea (click, file input or drop on the area) calls onSelectFile
\* only while the slot is not uploading.  handleSelectFile up to its await:
\* the flag is set, the preview shows the new file at once and the file
\* starts being read.
UploadAreaSelect ==
    /\ selections < MaxSelections
    /\ ~slotUploading
    /\ slotUploading' = TRUE
    /\ slotPreview' = selections + 1
    /\ slotReading' = slotReading \cup {selections + 1}
    /\ selections' = selections + 1
    /\ UNCHANGED <<slotImage, notSlot>>

\* handleAppDrop in Edit mode: a file dropped anywhere on the studio goes to
\* handleSelectFile for the slot, whatever isUploading says.
handleAppDrop ==
    /\ selections < MaxSelections
    /\ slotUploading' = TRUE
    /\ slotPreview' = selections + 1
    /\ slotReading' = slotReading \cup {selections + 1}
    /\ selections' = selections + 1
    /\ UNCHANGED <<slotImage, notSlot>>

\* fileToImageFile resolves: setImage(imageFile), and the finally block
\* clears the flag.
FileReadResolves ==
    /\ \E file \in slotReading :
         /\ slotImage' = file
         /\ slotReading' = slotReading \ {file}
    /\ slotUploading' = FALSE
    /\ UNCHANGED <<slotPreview, selections, notSlot>>

\* fileToImageFile rejects: setPreview(null), and the finally block clears
\* the flag.
FileReadRejects ==
    /\ \E file \in slotReading : slotReading' = slotReading \ {file}
    /\ slotPreview' = 0
    /\ slotUploading' = FALSE
    /\ UNCHANGED <<slotImage, selections, notSlot>>

(***************************************************************************)
(* The validation of Apply Edit.  The inputs of the Edit panel (image1,    *)
(* image2, the edit function, the prompt) are read by handleApplyEdit when *)
(* the button is clicked; the names carry the suffix Ed where another      *)
(* section already uses the source's name.  A prompt is a sequence of      *)
(* characters.                                                             *)
(***************************************************************************)
EdPrompts == {<<>>, <<" ">>, <<"\n", " ">>, <<"a">>, <<" ", "a", " ">>}

EdImages == {[base64 |-> "SU1HMQ", mimeType |-> "image/png"],
             [base64 |-> "SU1HMg", mimeType |-> "image/jpeg"]}

NoImage1Error == "Por favor, carregue uma imagem para editar."
NoImage2Error == "Por favor, carregue a segunda imagem para unir."
NoPromptError == "Por favor, descreva a edição desejada."

\* isComposeMode, in Edit mode (the only mode that renders the button).
isComposeMode(editFunc) == editFunc = "compose"

\* The checks of handleApplyEdit with the prompt tested as it is, not
\* trimmed.
ApplyEditErrorUntrimmed(img1, img2, editFunc, text) ==
    IF img1 = NULL THEN NoImage1Error
    ELSE IF isComposeMode(editFunc) /\ img2 = NULL THEN NoImage2Error
    ELSE IF editFunc # "magic-expand" /\ text = <<>> THEN NoPromptError
    ELSE "null"

\* The checks of handleApplyEdit, in the order of the code: the error to
\* report, "null" when all pass.
ApplyEditError(img1, img2, editFunc, text) ==
    IF img1 = NULL THEN NoImage1Error
    ELSE IF isComposeMode(editFunc) /\ img2 = NULL THEN NoImage2Error
    ELSE IF editFunc # "magic-expand" /\ trim(text) = <<>> THEN NoPromptError
    ELSE "null"

ApplyInit ==
    /\ image1Ed = NULL
    /\ image2Ed = NULL
    /\ activeEditFuncEd = "add-remove"
    /\ promptEd = <<>>
    /\ isLoadingEd = FALSE
    /\ toastErrorEd = "null"
    /\ editApiCall = NULL
    /\ lastApply = NULL

\* An image is loaded into the first uploader of the Edit panel.
SetImage1 ==
    /\ \E imageFile \in EdImages : image1Ed' = imageFile
    /\ lastApply' = NULL
    /\ UNCHANGED <<image2Ed, activeEditFuncEd, promptEd, isLoadingEd,
                   toastErrorEd, editApiCall, notApply>>

\* An image is loaded into the second uploader.
SetImage2 ==
    /\ \E imageFile \in EdImages : image2Ed' = imageFile
    /\ lastApply' = NULL
    /\ UNCHANGED <<image1Ed, activeEditFuncEd, promptEd, isLoadingEd,
                   toastErrorEd, editApiCall, notApply>>

\* A function card of the Edit panel is clicked.
SetActiveEditFunc ==
    /\ \E editFunc \in EditFunctions : activeEditFuncEd' = editFunc
    /\ lastApply' = NULL
    /\ UNCHANGED <<image1Ed, image2Ed, promptEd, isLoadingEd, toastErrorEd,
                   editApiCall, notApply>>

\* The prompt textarea changes.
SetPrompt ==
    /\ \E text \in EdPrompts : promptEd' = text
    /\ lastApply' = NULL
    /\ UNCHANGED <<image1Ed, image2Ed, activeEditFuncEd, isLoadingEd,
                   toastErrorEd, editApiCall, notApply>>

\* The Apply button (disabled while isLoading) is clicked: a failed check
\* reports its error and returns with isLoading false (set to true and back
\* to false in the same handler for the second and third check); otherwise
\* isLoading is set and editImageWithGemini is called with the values the
\* handler read.  lastApply records what the handler read and what it did.
ApplyEditClicked ==
    /\ ~isLoadingEd
    /\ LET error == ApplyEditError(image1Ed, image2Ed, activeEditFuncEd,
                                   promptEd)
           read == [image1 |-> image1Ed, image2 |-> image2Ed,
                    editFunction |-> activeEditFuncEd, prompt |-> promptEd]
       IN  IF error # "null"
           THEN /\ toastErrorEd' = error
                /\ isLoadingEd' = FALSE
                /\ UNCHANGED editApiCall
                /\ lastApply' = [read |-> read, called |-> FALSE]
           ELSE /\ isLoadingEd' = TRUE
                /\ editApiCall' = read
                /\ UNCHANGED toastErrorEd
                /\ lastApply' = [read |-> read, called |-> TRUE]
    /\ UNCHANGED <<image1Ed, image2Ed, activeEditFuncEd, promptEd, notApply>>

\* The call settles and the finish delay elapses: isLoading is false again.
ApplyEditCallSettles ==
    /\ editApiCall # NULL
    /\ editApiCall' = NULL
    /\ isLoadingEd' = FALSE
    /\ lastApply' = NULL
    /\ UNCHANGED <<image1Ed, image2Ed, activeEditFuncEd, promptEd,
                   toastErrorEd, notApply>>

\* The error toast is dismissed.
DismissToastEd ==
    /\ toastErrorEd # "null"
    /\ toastErrorEd' = "null"
    /\ lastApply' = NULL
    /\ UNCHANGED <<image1Ed, image2Ed, activeEditFuncEd, promptEd,
                   isLoadingEd, editApiCall, notApply>>

(***************************************************************************)
(* generateVideoWithGemini: the polling loop on the video operation.  Time *)
(* is Date.now() in milliseconds; videoPhase is the position of the        *)
(* function: "idle", "starting" (generateVideos awaited), "loopCheck" (at  *)
(* the while condition), "sleeping" (the 10 s timer awaited), "polling"    *)
(* (getVideosOperation awaited), "afterLoop", "downloading", "returned",   *)
(* "thrown".                                                               *)
(***************************************************************************)
timeoutMinutes == 10

timeoutMillis == timeoutMinutes * 60 * 1000

\* setTimeout(resolve, 10000)
pollDelay == 10000

\* How late the 10 s timer fires.
TimerLags == {0, 5000}

\* How long a call of getVideosOperation takes.
PollLatencies == {0, 5000, 300000}

\* The operation as the API reports it: done, error (its message or
\* "null"), the uri of the generated video (or "null") and the
\* progressPercent of its metadata (-1 when it has none).
Operations ==
    {[done |-> FALSE, error |-> "null", uri |-> "null", progressPercent |-> -1],
     [done |-> FALSE, error |-> "null", uri |-> "null", progressPercent |-> 50],
     [done |-> TRUE, error |-> "null", uri |-> "https://video", progressPercent |-> 100],
     [done |-> TRUE, error |-> "quota exceeded", uri |-> "null", progressPercent |-> -1],
     [done |-> TRUE, error |-> "null", uri |-> "null", progressPercent |-> 100]}

TimeoutError == "A geração de vídeo excedeu o tempo limite de 10 minutos."
FailedError == "A geração de vídeo falhou: "
NoLinkError ==
    "A geração de vídeo falhou, nenhum link de download foi retornado."
DownloadError == "Falha ao baixar o vídeo."
ApiError == "API error"

\* 5 + Math.floor(progressPercent * 0.9)
displayProgress(progressPercent) == 5 + (progressPercent * 9) \div 10

\* The timeout test with >= for >.
TimedOutInclusive(current, start) == current - start >= timeoutMillis

\* Date.now() - startTime > timeoutMillis
TimedOut(current, start) == current - start > timeoutMillis

VideoInit ==
    /\ videoPhase = "idle"
    /\ dateNow = 0
    /\ startTime = 0
    /\ operation = NULL
    /\ videoProgress = 0
    /\ videoResult = NULL
    /\ lastLoopCheck = NULL

\* generateVideoWithGemini is called: onProgress(1, ...) and the request is
\* sent.
generateVideoWithGemini ==
    /\ videoPhase = "idle"
    /\ videoPhase' = "starting"
    /\ videoProgress' = 1
    /\ UNCHANGED <<dateNow, startTime, operation, videoResult, lastLoopCheck,
                   notVideo>>

\* ai.models.generateVideos resolves: onProgress(5, ...) and
\* startTime = Date.now().
generateVideosResolves ==
    /\ videoPhase = "starting"
    /\ \E op \in Operations, latency \in PollLatencies :
         /\ operation' = op
         /\ dateNow' = dateNow + latency
         /\ startTime' = dateNow + latency
    /\ videoProgress' = 5
    /\ videoPhase' = "loopCheck"
    /\ UNCHANGED <<videoResult, lastLoopCheck, notVideo>>

\* ai.models.generateVideos or ai.operations.getVideosOperation rejects:
\* the error leaves the function.
videoApiRejects ==
    /\ videoPhase \in {"starting", "polling"}
    /\ videoPhase' = "thrown"
    /\ videoResult' = [error |-> ApiError]
    /\ UNCHANGED <<dateNow, startTime, operation, videoProgress,
                   lastLoopCheck, notVideo>>

\* while (!operation.done), then the timeout test at the head of the body.
\* lastLoopCheck records what the check saw.
LoopCheck ==
    /\ videoPhase = "loopCheck"
    /\ lastLoopCheck' = [done |-> operation.done,
                         elapsed |-> dateNow - startTime]
    /\ IF operation.done
       THEN /\ videoPhase' = "afterLoop"
            /\ UNCHANGED videoResult
       ELSE IF TimedOut(dateNow, startTime)
       THEN /\ videoPhase' = "thrown"
            /\ videoResult' = [error |-> TimeoutError]
       ELSE /\ videoPhase' = "sleeping"
            /\ UNCHANGED videoResult
    /\ UNCHANGED <<dateNow, startTime, operation, videoProgress, notVideo>>

\* The 10 s timer fires and getVideosOperation is called.
PollTimerFires ==
    /\ videoPhase = "sleeping"
    /\ \E lag \in TimerLags : dateNow' = dateNow + pollDelay + lag
    /\ videoPhase' = "polling"
    /\ UNCHANGED <<startTime, operation, videoProgress, videoResult,
                   lastLoopCheck, notVideo>>

\* getVideosOperation resolves with the operation as it is now; a numeric
\* progressPercent is shown.
getVideosOperationResolves ==
    /\ videoPhase = "polling"
    /\ \E op \in Operations, latency \in PollLatencies :
         /\ operation' = op
         /\ dateNow' = dateNow + latency
         /\ videoProgress' = IF op.progressPercent >= 0
                             THEN displayProgress(op.progressPercent)
                             ELSE videoProgress
    /\ videoPhase' = "loopCheck"
    /\ UNCHANGED <<startTime, videoResult, lastLoopCheck, notVideo>>

\* After the loop: operation.error throws the failure error; otherwise
\* onProgress(95, ...), and a missing download link throws; otherwise
\* onProgress(97, ...) and the video is fetched.
AfterLoop ==
    /\ videoPhase = "afterLoop"
    /\ IF operation.error # "null"
       THEN /\ videoPhase' = "thrown"
            /\ videoResult' = [error |-> FailedError]
            /\ UNCHANGED videoProgress
       ELSE IF operation.uri = "null"
       THEN /\ videoPhase' = "thrown"
            /\ videoResult' = [error |-> NoLinkError]
            /\ videoProgress' = 95
       ELSE /\ videoPhase' = "downloading"
            /\ videoProgress' = 97
            /\ UNCHANGED videoResult
    /\ UNCHANGED <<dateNow, startTime, operation, lastLoopCheck, notVideo>>

\* The download settles: a blob url of the video is returned, or the fetch
\* or one of the checks on its response throws.
DownloadSettles ==
    /\ videoPhase = "downloading"
    /\ \E downloaded \in BOOLEAN :
         IF downloaded
         THEN /\ videoPhase' = "returned"
              /\ videoResult' = [blobUrl |-> operation.uri]
         ELSE /\ videoPhase' = "thrown"
              /\ videoResult' = [error |-> DownloadError]
    /\ UNCHANGED <<dateNow, startTime, operation, videoProgress,
                   lastLoopCheck, notVideo>>

(***************************************************************************)
(* Specifications: one per subsystem, all from the same initial state.     *)
(***************************************************************************)
Init ==
    /\ FocusInit
    /\ ExpandInit
    /\ RatioInit
    /\ MaskInit
    /\ EditInit
    /\ StoreInit
    /\ ErrorInit
    /\ GeminiInit
    /\ UrlInit
    /\ ReferenceInit
    /\ SettingsInit
    /\ LoadingInit
    /\ SlotInit
    /\ ApplyInit
    /\ VideoInit

NextFocus ==
    \/ ResetViewOnOpen
    \/ handleImageLoad
    \/ handleWheel
    \/ handleMouseDown
    \/ handleMouseMove
    \/ handleMouseUp
    \/ handleResetZoom
    \/ handleDoubleClick
    \/ ZoomInButton
    \/ ZoomOutButton


SpecFocus == Init /\ [][NextFocus]_vars

NextExpand ==
    \/ updateExpandState
    \/ handleExpandInteraction
    \/ ResizeMouseMove
    \/ handleImageDragStart
    \/ ImageMouseMove
    \/ ExpandMouseUp
    \/ handleExpandRatioPreset
    \/ SelectFreeRatio
    \/ ApplyEditExpand
    \/ ApplyEditExpandDone

SpecExpand == Init /\ [][NextExpand]_vars

NextRatio ==
    \/ UploadImage1
    \/ SelectExpandRatio
    \/ ApplyEditExpandRatio
    \/ ApplyEditExpandRatioDone

SpecRatio == Init /\ [][NextRatio]_vars

NextMask ==
    \/ setActiveMaskTool
    \/ resizeCanvas
    \/ clearMaskCanvas
    \/ handleMaskMouseDown
    \/ handleMaskMouseMove
    \/ handleMaskMouseUp
    \/ ApplyEditMask
    \/ ApplyEditMaskDone

SpecMask == Init /\ [][NextMask]_vars

NextEdit ==
    \/ setNewImageResult
    \/ handleEffectChange
    \/ handleCommitEffects
    \/ handleResetEffects
    \/ handleUndo
    \/ handleRedo
    \/ handleSendToEdit

SpecEdit == Init /\ [][NextEdit]_vars

NextStore ==
    \/ handleLogin
    \/ handleLogout
    \/ addToHistory
    \/ handleClearHistory
    \/ saveHistoryItem
    \/ getHistoryForUser
    \/ clearHistoryForUser

SpecStore == Init /\ [][NextStore]_vars

\* The history with studio requests that outlive a change of user.
NextSession ==
    \/ NextStore
    \/ StudioRequestStarts
    \/ StudioRequestAddsToHistory

SpecSession == Init /\ [][NextSession]_vars

NextError ==
    \/ CatchError
    \/ DismissToast

SpecError == Init /\ [][NextError]_vars

NextGemini ==
    \/ editImageWithGemini
    \/ generateContentResolves
    \/ generateContentRejects
    \/ editSettled

SpecGemini == Init /\ [][NextGemini]_vars

NextUrl ==
    \/ MountStudio
    \/ handleSelectFile
    \/ handleAddReferenceImage
    \/ handleRemoveReferenceImage
    \/ clearReferenceImages
    \/ handleRemoveVideoReferenceImage
    \/ handleGenerateVideo
    \/ ApplyEditResult
    \/ ApplyEnhancementResult
    \/ handleSidebarHistoryClick
    \/ UnmountStudio

SpecUrl == Init /\ [][NextUrl]_vars

NextReference ==
    \/ AddReferenceImage
    \/ ReferenceFileRead
    \/ ReferenceFileFailed
    \/ CommitReferences
    \/ RemoveReferenceImage

SpecReference == Init /\ [][NextReference]_vars

\* The reference list with the GERAR button, over fewer adds.
NextGenerate ==
    \/ AddReferenceForGenerate
    \/ ReferenceFileRead
    \/ ReferenceFileFailed
    \/ CommitReferences
    \/ RemoveReferenceImage
    \/ GenerateClicked

SpecGenerate == Init /\ [][NextGenerate]_vars

NextSettings ==
    \/ MountStudioSettings
    \/ SelectCreateFunction
    \/ SelectAspectRatio
    \/ UnmountStudioSettings

SpecSettings == Init /\ [][NextSettings]_vars

NextLoading ==
    \/ handleGenerate
    \/ handleApplyEnhancement
    \/ handleApplyEdit
    \/ SourceImageLoads
    \/ SourceImageFails
    \/ RequestSettles
    \/ handleUpscale
    \/ UpscaleSettles
    \/ handleGenerateVariations
    \/ VariationsSettle
    \/ FinishTimerFires
    \/ ProgressIntervalTicks

SpecLoading == Init /\ [][NextLoading]_vars

NextSlot ==
    \/ UploadAreaSelect
    \/ handleAppDrop
    \/ FileReadResolves
    \/ FileReadRejects

SpecSlot == Init /\ [][NextSlot]_vars

NextApply ==
    \/ SetImage1
    \/ SetImage2
    \/ SetActiveEditFunc
    \/ SetPrompt
    \/ ApplyEditClicked
    \/ ApplyEditCallSettles
    \/ DismissToastEd

SpecApply == Init /\ [][NextApply]_vars

NextVideo ==
    \/ generateVideoWithGemini
    \/ generateVideosResolves
    \/ videoApiRejects
    \/ LoopCheck
    \/ PollTimerFires
    \/ getVideosOperationResolves
    \/ AfterLoop
    \/ DownloadSettles

SpecVideo == Init /\ [][NextVideo]_vars

\* Every awaited promise settles and every timer fires.
SpecVideoFair ==
    /\ Init
    /\ [][NextVideo]_vars
    /\ WF_vars(generateVideosResolves \/ videoApiRejects)
    /\ WF_vars(LoopCheck)
    /\ WF_vars(PollTimerFires)
    /\ WF_vars(getVideosOperationResolves \/ videoApiRejects)
    /\ WF_vars(AfterLoop)
    /\ WF_vars(DownloadSettles)

\* The same with the scheduling the browser guarantees: a pending image
\* load, API call or timer does complete.  That the image load succeeds is
\* not guaranteed.
SpecLoadingFair ==
    /\ Init
    /\ [][NextLoading]_vars
    /\ WF_vars(SourceImageLoads \/ SourceImageFails)
    /\ WF_vars(RequestSettles)
    /\ WF_vars(UpscaleSettles)
    /\ WF_vars(VariationsSettle)
    /\ WF_vars(FinishTimerFires)

C2_ExpandGeometry ==
    expandState # NULL =>
        /\ RLe(expandState.image.width, expandState.frame.width)
        /\ RLe(expandState.image.height, expandState.frame.height)
        /\ RectInside(expandState.image, expandState.frame)
        /\ RectInside(expandState.frame,
                      [left |-> Zero, top |-> Zero,
                       width |-> expandState.container.width,
                       height |-> expandState.container.height])

\* C6: in the image and mask sent for a Magic Expand request, the original
\* image lies entirely inside the expanded canvas, and the mask is black
\* exactly over the rectangle where the image is drawn and white elsewhere
\* (both revisions of handleApplyEdit).
C6_ExpandRequest ==
    /\ expandRequestSp # NULL => ExpandRequestOk(expandRequestSp)
    /\ expandRequest # NULL => ExpandRequestOk(expandRequest)

\* C3: when Apply Edit runs in masking mode, a mask image is attached to the
\* edit request if and only if the user has painted something on the mask
\* canvas.
C3_MaskIffPainted ==
    maskRequest # NULL => (maskRequest.mask # NULL <=> MaskPainted)

\* C4: the edit history stack is never empty and
\* 0 <= currentHistoryIndex < editHistory.length, across any sequence of new
\* image results, effect commits, effect resets, undo and redo.
C4_HistoryIndexInRange ==
    /\ Len(editHistory) >= 1
    /\ 0 <= currentHistoryIndex
    /\ currentHistoryIndex < Len(editHistory)

\* C4's case: effects were committed twice and one of them undone, so that
\* the current state is neither the first nor the last of the stack.
C4_Witness ==
    /\ Len(editHistory) = 3
    /\ currentHistoryIndex = 1
    /\ editHistory[1].image # "null"

\* C5: the history kept for a user never exceeds MAX_HISTORY_ITEMS = 50: the
\* in-memory list holds at most 50 items at all times, the store holds at
\* most 50 items for each user once saveHistoryItem has completed, and the
\* items saveHistoryItem deleted are the ones with the smallest ids.
C5_HistoryBounded ==
    /\ Len(history) <= MAX_HISTORY_ITEMS
    /\ \A u \in Users : Cardinality(IdsOf(store, u)) <= MAX_HISTORY_ITEMS
    /\ lastSave # NULL =>
          /\ Cardinality(lastSave.after) <= MAX_HISTORY_ITEMS
          /\ lastSave.after \subseteq lastSave.before \cup {lastSave.id}
          /\ \A d \in (lastSave.before \cup {lastSave.id}) \ lastSave.after :
                \A k \in lastSave.after : d < k

\* C5's case: a save has completed that found the user's store full and
\* deleted an item, while the in-memory list is full too.
C5_Witness ==
    /\ lastSave # NULL
    /\ lastSave.before \ lastSave.after # {}
    /\ Cardinality(lastSave.after) = MAX_HISTORY_ITEMS
    /\ Len(history) = MAX_HISTORY_ITEMS

\* The raw message of the claim C7 and what the claim says of its JSON.
C7_Raw == potentialMessage(caughtError)
C7_Has(needle) == LowerIncludes(PhrasesOf(C7_Raw), needle)
C7_ApiError ==
    IF C7_Raw.doc.error # NoNested THEN C7_Raw.doc.error ELSE C7_Raw.doc.top
C7_IsJsonObject == ParsesAsJson(C7_Raw) /\ C7_Raw.doc.shape = "object"
C7_JsonQuota ==
    /\ C7_IsJsonObject
    /\ \/ ParsedStatus(C7_ApiError.status) = "RESOURCE_EXHAUSTED"
       \/ /\ C7_ApiError.hasMessage
          /\ LowerIncludes(C7_ApiError.message, "quota")
C7_JsonOtherMessage ==
    /\ C7_IsJsonObject
    /\ C7_ApiError.hasMessage
    /\ C7_ApiError.message # <<>>

C8_Returned == editResult # NULL /\ "returned" \in DOMAIN editResult

C8_Thrown == IF editResult # NULL /\ "thrown" \in DOMAIN editResult
             THEN editResult.thrown ELSE "none"

C8_Blocked ==
    /\ geminiResponse.promptFeedback # NULL
    /\ geminiResponse.promptFeedback.blockReason \notin {"undefined", ""}

C8_HasParts ==
    /\ geminiResponse.candidates # Undefined
    /\ Len(geminiResponse.candidates[1]) >= 1
    /\ geminiResponse.candidates[1][1].content # NULL
    /\ geminiResponse.candidates[1][1].content.parts # Undefined

C8_Parts == IF C8_HasParts
            THEN geminiResponse.candidates[1][1].content.parts[1] ELSE <<>>

C8_Images == {i \in 1..Len(C8_Parts) : C8_Parts[i].inlineData # NULL}

C8_Texts == {i \in 1..Len(C8_Parts) : C8_Parts[i].text \notin {"undefined", ""}}

\* C8: editImageWithGemini returns a data URL exactly when the response has
\* no block reason and the first candidate's parts hold an inline image, and
\* the URL is made of that part's mime type and data; a block reason raises
\* the "blocked" error even when an image is present; missing candidate
\* parts, text without an image, and neither text nor image each raise an
\* error of their own.
C8_ReturnsOnlyImage ==
    (geminiResponse # NULL /\ editResult # NULL) =>
        /\ C8_Returned <=> (~C8_Blocked /\ C8_Images # {})
        /\ C8_Returned =>
             \E i \in C8_Images :
                /\ \A j \in C8_Images : i <= j
                /\ editResult.returned =
                     <<"data:", C8_Parts[i].inlineData.mimeType,
                       ";base64,", C8_Parts[i].inlineData.data>>
        /\ C8_Blocked =>
             C8_Thrown = "Edição bloqueada por segurança. Motivo:"
        /\ (~C8_Blocked /\ ~C8_HasParts) =>
             C8_Thrown = "Resposta inválida do modelo de IA durante a edição."
        /\ (~C8_Blocked /\ C8_HasParts /\ C8_Images = {} /\ C8_Texts # {}) =>
             C8_Thrown = "A edição de imagem falhou. A IA respondeu:"
        /\ (~C8_Blocked /\ C8_HasParts /\ C8_Images = {} /\ C8_Texts = {}) =>
             C8_Thrown = "A edição de imagem falhou, nenhuma imagem foi retornada."

\* A reply whose first candidate holds text and then an image was returned
\* as that image's data URL.
C8_Witness ==
    /\ geminiResponse # NULL
    /\ C8_Returned
    /\ C8_Parts = <<ReplyText, ImageJpeg>>
    /\ editResult.returned = <<"data:", "image/jpeg", ";base64,", "SlBH">>

C9_Parts == geminiRequest.contents.parts

C9_IsImage(part, file) ==
    /\ file # NULL
    /\ DOMAIN part = {"inlineData"}
    /\ part.inlineData = [data |-> file.base64, mimeType |-> file.mimeType]

C9_MaskCase ==
    /\ geminiCall.mask # NULL
    /\ geminiCall.editFunction \in {"add-remove", "magic-expand"}

C9_Image2Case ==
    /\ ~C9_MaskCase
    /\ geminiCall.editFunction = "compose"
    /\ geminiCall.image2 # NULL

\* C9: the request's parts are image1, then at most one second image, then
\* exactly one text part (the last); the second image is the mask exactly in
\* the mask case (mask given, function add-remove or magic-expand), image2
\* exactly when the mask case does not apply, the function is compose and
\* image2 is given, and absent otherwise.
C9_RequestParts ==
    geminiRequest # NULL =>
        /\ Len(C9_Parts) \in {2, 3}
        /\ C9_IsImage(C9_Parts[1], geminiCall.image1)
        /\ \A i \in 1..Len(C9_Parts) :
             ("text" \in DOMAIN C9_Parts[i]) <=> (i = Len(C9_Parts))
        /\ C9_Parts[Len(C9_Parts)].text.prompt = geminiCall.prompt
        /\ C9_MaskCase <=>
             (Len(C9_Parts) = 3 /\ C9_IsImage(C9_Parts[2], geminiCall.mask))
        /\ C9_Image2Case <=>
             (Len(C9_Parts) = 3 /\ C9_IsImage(C9_Parts[2], geminiCall.image2))
        /\ (~C9_MaskCase /\ ~C9_Image2Case) => Len(C9_Parts) = 2

\* A compose request made with both a mask and image2 given: the mask is
\* left out and image2 is the second part.
C9_Witness ==
    /\ geminiRequest # NULL
    /\ geminiCall.editFunction = "compose"
    /\ geminiCall.mask # NULL
    /\ geminiCall.image2 # NULL
    /\ Len(C9_Parts) = 3
    /\ C9_IsImage(C9_Parts[2], geminiCall.image2)

\* ---- C10: object URLs at unmount ----
C10_HeldUrls ==
    (PreviewUrlsOf(referenceImageFiles)
        \cup {previews[slot] : slot \in PreviewSlots}
        \cup {videoBlobUrl}) \ {NULL}

\* C10: once the studio has unmounted, no object URL it held at that moment
\* (a reference image's preview, the video reference, image1, image2, the
\* enhance image, the generated video) is still unrevoked.
C10_UnmountRevokesAll ==
    studioPhase = "unmounted" => C10_HeldUrls \cap objectUrls = {}

\* ---- C11: at most 5 reference images ----

C12_InEffect ==
    [activeCreateFunc |-> activeCreateFunc, aspectRatio |-> aspectRatio]

C13_LoadingWhileInFlight ==
    /\ Len(requests) > 0 => isLoading
    /\ Len(requests) <= 1

C14_EditInFlight == \E i \in 1..Len(requests) : requests[i].kind = "edit"

\* C14: every Apply Edit that passed validation is eventually followed by
\* isLoading = false and progress = null.
C14_ApplyEditSettles ==
    C14_EditInFlight ~> (isLoading = FALSE /\ progress = "null")

\* ---- C15, C16: the in-memory history against the store ----

\* C15: with a user logged in and no history transaction in flight, the
\* in-memory list is what getHistoryForUser returns for that user: the
\* user's stored items, newest first.
C15_HistoryMatchesStore ==
    (currentUser # "null" /\ txQueue = <<>>) =>
        history = [i \in 1..Cardinality(IdsOf(store, currentUser)) |->
                     [id |-> Descending(IdsOf(store, currentUser))[i],
                      userName |-> currentUser]]

\* C16: the in-memory list holds only items of the current user.
C16_OnlyOwnItems ==
    currentUser # "null" =>
        \A i \in 1..Len(history) : history[i].userName = currentUser

\* ---- C17: an uploader slot ----

\* C17: once no upload is in progress for the slot, its image data and its
\* preview come from the same file.
C17_ImageMatchesPreview ==
    (slotReading = {} /\ ~slotUploading /\ slotImage # 0 /\ slotPreview # 0)
        => slotImage = slotPreview

\* ---- C18, C19, C20: undo, redo and the edit history stack ----

\* C18: if currentHistoryIndex > 0, handleUndo immediately followed by
\* handleRedo restores currentHistoryIndex, the displayed image and the
\* effects to the values they had before the undo.
C18_UndoRedoRestores ==
    (lastEdit # NULL /\ lastEdit.op = "undoRedo") =>
        /\ currentHistoryIndex = lastEdit.index
        /\ generatedImage = lastEdit.image
        /\ effects = lastEdit.effects

\* C19: after addStateToHistory is called with a state that differs from the
\* entry at currentHistoryIndex, the stack is the former entries
\* 0..currentHistoryIndex followed by the new state (the redo entries are
\* discarded) and currentHistoryIndex points to the new last entry; when the
\* state equals the entry at currentHistoryIndex, stack and index are
\* unchanged.
C19_AddStateToHistory ==
    (lastEdit # NULL /\ lastEdit.op = "add") =>
        LET former == lastEdit.history
            index == lastEdit.index
            state == lastEdit.state
        IN  IF state # former[index + 1]
            THEN /\ editHistory = Append(SubSeq(former, 1, index + 1), state)
                 /\ currentHistoryIndex = Len(editHistory) - 1
            ELSE /\ editHistory = former
                 /\ currentHistoryIndex = index

\* C19's case: addStateToHistory was called below the top of the stack with
\* a state that differs from the current entry, so a redo entry was there to
\* discard.
C19_Witness ==
    /\ lastEdit # NULL
    /\ lastEdit.op = "add"
    /\ lastEdit.index < Len(lastEdit.history) - 1
    /\ lastEdit.state # lastEdit.history[lastEdit.index + 1]

\* C20: in every reachable state the image stored at
\* editHistory[currentHistoryIndex] is the image currently displayed
\* (generatedImage), so that what reads the history entry acts on the
\* displayed image, and on nothing when no image is displayed.
C20_HistoryImageIsDisplayed ==
    CurrentState.image = generatedImage

\* ---- C21: the simulated-progress intervals ----

\* Every started operation has finished and its 500 ms finish delay has
\* elapsed.
C21_AllFinished ==
    /\ requests = <<>>
    /\ upscales = 0
    /\ variationRuns = 0
    /\ finishTimers = 0

\* C21: once every started operation has finished and its finish delay has
\* elapsed, no simulated-progress interval is still running and progress is
\* null, even when two operations overlapped.
C21_NoIntervalLeft ==
    C21_AllFinished => (intervals = {} /\ progress = "null")

\* ---- C22: object URLs in use ----

\* The object URLs in use: the before image and the upload previews while
\* the studio is mounted, and the beforeImageUrl of the saved history items.
C22_UrlsInUse ==
    ((IF studioPhase = "mounted"
      THEN {beforeImage} \cup {previews[slot] : slot \in PreviewSlots}
      ELSE {})
        \cup savedBeforeImageUrls) \ {NULL}

\* C22: no object URL is used after it has been revoked: beforeImage, the
\* upload previews and the beforeImageUrl of saved history items never refer
\* to a URL that a cleanup effect or a removal handler has revoked.
C22_NoUseAfterRevoke ==
    C22_UrlsInUse \subseteq objectUrls

\* ---- C23: the validation of Apply Edit ----

\* The prompt is blank: empty or white space only.
C23_Blank(text) == \A i \in 1..Len(text) : text[i] \in WhiteSpace

\* C23: Apply Edit never calls the edit API unless image1 is loaded, image2
\* is also loaded when the function is compose, and the prompt is non-blank
\* unless the function is magic-expand; each failed check reports its own
\* error and leaves isLoading false.
C23_ApplyEditValidated ==
    /\ editApiCall # NULL =>
          /\ editApiCall.image1 # NULL
          /\ editApiCall.editFunction = "compose" => editApiCall.image2 # NULL
          /\ editApiCall.editFunction # "magic-expand"
                => ~C23_Blank(editApiCall.prompt)
    /\ lastApply # NULL =>
          LET read == lastApply.read
              noImage1 == read.image1 = NULL
              noImage2 == read.editFunction = "compose" /\ read.image2 = NULL
              noPrompt == read.editFunction # "magic-expand"
                            /\ C23_Blank(read.prompt)
          IN  /\ lastApply.called <=> ~(noImage1 \/ noImage2 \/ noPrompt)
              /\ ~lastApply.called =>
                    /\ isLoadingEd = FALSE
                    /\ editApiCall = NULL
                    /\ noImage1 => toastErrorEd = NoImage1Error
                    /\ (~noImage1 /\ noImage2) => toastErrorEd = NoImage2Error
                    /\ (~noImage1 /\ ~noImage2 /\ noPrompt)
                          => toastErrorEd = NoPromptError

\* C23's case: with both images loaded and the compose function chosen,
\* Apply Edit was clicked on a prompt of white space only and refused it.
C23_Witness ==
    /\ lastApply # NULL
    /\ ~lastApply.called
    /\ lastApply.read.image1 # NULL
    /\ lastApply.read.image2 # NULL
    /\ lastApply.read.editFunction = "compose"
    /\ lastApply.read.prompt = <<"\n", " ">>
    /\ toastErrorEd = NoPromptError

\* ---- C24: the validation of handleGenerate ----

\* The ids of the entries of the list in state whose file is still being
\* processed.
C24_Unprocessed ==
    {referenceList[i].id : i \in {j \in 1..Len(referenceList) :
                                     referenceList[j].imageFile = "null"}}

\* C24: image generation is never requested with a blank prompt or while a
\* reference image is still being processed; in both cases handleGenerate
\* reports an error (and, the toast aside, changes nothing); every reference
\* image passed to the API has been fully processed.
C24_GenerateValidated ==
    lastGenerate # NULL =>
        LET blank == C23_Blank(lastGenerate.prompt)
            pending == \E i \in 1..Len(renderedReferences) :
                          renderedReferences[i].imageFile = "null"
        IN  /\ (blank \/ pending) =>
                  /\ lastGenerate.request = NULL
                  /\ lastGenerate.before =
                        <<referenceList, readingReferences>>
                  /\ referenceToast \in {NoGeneratePromptError,
                                         UnprocessedReferenceError}
            /\ blank => referenceToast = NoGeneratePromptError
            /\ lastGenerate.request # NULL =>
                  /\ C24_Unprocessed = {}
                  /\ ~C23_Blank(lastGenerate.request.prompt)
                  /\ \A i \in 1..Len(lastGenerate.request.referenceImages) :
                        \E j \in 1..Len(referenceList) :
                           /\ referenceList[j].id =
                                lastGenerate.request.referenceImages[i]
                           /\ referenceList[j].imageFile = "loaded"

\* C24's case: GERAR was clicked with a prompt while one reference image
\* was processed and another was still being read, and was refused.
C24_Witness ==
    /\ lastGenerate # NULL
    /\ ~C23_Blank(lastGenerate.prompt)
    /\ lastGenerate.request = NULL
    /\ Len(renderedReferences) = 2
    /\ renderedReferences[1].imageFile = "loaded"
    /\ renderedReferences[2].imageFile = "null"
    /\ referenceToast = UnprocessedReferenceError

\* ---- C25: the polling loop of generateVideoWithGemini ----

C25_InLoopBody == videoPhase \in {"sleeping", "polling"}

C25_Ended == videoPhase \in {"returned", "thrown"}

\* The loop is left as soon as a poll reports the operation done; the
\* timeout error is thrown at the first loop check made more than 10 minutes
\* after polling started, with no poll after it; an operation that ends with
\* an error raises the failure error and returns no video.
C25_LoopSteps ==
    /\ (operation # NULL /\ operation.done) => ~C25_InLoopBody
    /\ C25_InLoopBody =>
          /\ ~lastLoopCheck.done
          /\ lastLoopCheck.elapsed <= 10 * 60 * 1000
    /\ (lastLoopCheck # NULL /\ ~lastLoopCheck.done
          /\ lastLoopCheck.elapsed > 10 * 60 * 1000) =>
          /\ videoPhase = "thrown"
          /\ videoResult = [error |-> TimeoutError]
    /\ (videoResult # NULL /\ videoResult = [error |-> TimeoutError]) =>
          /\ ~lastLoopCheck.done
          /\ lastLoopCheck.elapsed > 10 * 60 * 1000
    /\ (C25_Ended /\ lastLoopCheck # NULL /\ lastLoopCheck.done
          /\ operation.error # "null") =>
          videoResult = [error |-> FailedError]
    /\ videoPhase = "returned" =>
          /\ operation.done
          /\ operation.error = "null"
          /\ videoResult = [blobUrl |-> operation.uri]

\* C25: the polling loop of generateVideoWithGemini always ends, and its
\* steps are the ones above: out of the loop as soon as a poll reports done,
\* the timeout error at the first check past 10 minutes without another
\* poll, the failure error for an operation that ended with an error.
C25_PollingEnds ==
    /\ []C25_LoopSteps
    /\ (videoPhase = "loopCheck") ~> C25_Ended

\* C25's case: the loop polled until a check found more than 10 minutes
\* gone, and threw the timeout error.
C25_Witness ==
    /\ videoPhase = "thrown"
    /\ videoResult = [error |-> TimeoutError]
    /\ lastLoopCheck.elapsed > 10 * 60 * 1000
    /\ videoProgress = 50

====
